---- MODULE Spec2Model ----
(***************************************************************************)
(* HSKG: the graph construction engine (app/graph/builder.py) and the      *)
(* in-process knowledge graph store (hskg/graph/knowledge_graph.py).       *)
(*                                                                         *)
(* Python dictionaries are functions; a dictionary update d.update(new) is *)
(* new @@ d.  Python's None is the value Null.  Node indices of the        *)
(* builder are 0-based as in the code; sequences are 1-based, so row idx   *)
(* of a list is seq[idx + 1].                                              *)
(***************************************************************************)
EXTENDS Integers, Sequences, FiniteSets, TLC

VARIABLES
    b_graph,    \* HSKGBuilder.graph: the nx.Graph owned by the builder
    b_args,     \* the arguments of the latest build call
    b_ret,      \* how the latest build call ended: "none" before any call
    b_calls,    \* build calls made on this builder so far (2 stands for 2 or more)
    b_prev,     \* node and edge counts of the builder's graph when the latest call began
    req,        \* the POST /api/graph requests in progress: thread -> position, payload, response
    h_nodes,        \* the live Node objects: reference -> [id, name, type]
    h_rels,         \* the live Relation objects: reference -> [id, source, target, type]
    kg_nodes,       \* KnowledgeGraph.nodes: node id -> Node reference
    kg_relations,   \* KnowledgeGraph.relations: relation id -> Relation reference
    kg_name_index,  \* KnowledgeGraph.node_name_index: name -> list of Node references
    kg_type_index,  \* KnowledgeGraph.node_type_index: type -> list of Node references
    kg_view,        \* KnowledgeGraph.graph: the nx.MultiDiGraph structural view
    kg_last,        \* the latest call on the knowledge graph, its argument and how it ended
    rt,             \* the latest to_dict / from_dict call: its input and its result
    st_graphs,      \* InMemoryStorage.graphs: graph id -> graph metadata
    st_nodes,       \* InMemoryStorage.nodes: node id -> node row
    st_relations,   \* InMemoryStorage.relations: relation row id -> relation row
    st_issued,      \* the graph ids save_graph has generated so far
    st_last,        \* the latest call on the storage, its argument and its result
    gs_backends     \* GraphStorage._backends: StorageType -> backend class

bvars == <<b_graph, b_args, b_ret, b_calls, b_prev, req>>

kgvars == <<h_nodes, h_rels, kg_nodes, kg_relations, kg_name_index, kg_type_index, kg_view, kg_last>>

stvars == <<st_graphs, st_nodes, st_relations, st_issued, st_last, gs_backends>>

vars == <<b_graph, b_args, b_ret, b_calls, b_prev, req, h_nodes, h_rels, kg_nodes, kg_relations,
          kg_name_index, kg_type_index, kg_view, kg_last, rt, st_graphs, st_nodes,
          st_relations, st_issued, st_last, gs_backends>>

(***************************************************************************)
(* Bounds and input domains                                                *)
(***************************************************************************)
\* Longest sentences / vectors / categories list handed to build.
MaxN == 2

\* Distinct relation ids (uuid4 values) in use at the same time.
MaxRelIds == 1

\* The graphs one storage is given to save.
MaxGraphs == 2

\* The items of a build whose categories form several groups.
MaxItems == 4

\* HSKGBuilder.__init__: threshold = 0.7 = ThresholdNum / ThresholdDen
ThresholdNum == 7
ThresholdDen == 10

Null == "<None>"

Texts == {"the button is hard to click", "add a settings panel"}
\* Embedding rows: cos(<<1,0>>,<<0,1>>) = 0,
\* cos(<<1,0>>,<<4,3>>) = 0.8, cos(<<0,1>>,<<4,3>>) = 0.6.
Vecs == {<<1, 0>>, <<0, 1>>, <<4, 3>>}
Cats == {Null, "", "item", "setting"}

SmallTexts == {"the button is hard to click"}
SmallVecs == {<<1, 0>>, <<4, 3>>}
SmallCats == {Null, "item"}

SeqsUpTo(S, n) == UNION {[1..k -> S] : k \in 0..n}

\* categories: list[str] | None.  given = FALSE is the argument None (or omitted).
NoCategories == [given |-> FALSE, list |-> <<>>]

BuildInputs(T, V, C) ==
    [sentences : SeqsUpTo(T, MaxN),
     vectors : SeqsUpTo(V, MaxN),
     categories : {NoCategories} \cup [given : {TRUE}, list : SeqsUpTo(C, MaxN)]]

AllInputs == BuildInputs(Texts, Vecs, Cats)

\* Arguments of the repeated calls: any vectors shape, categories absent or one per sentence.
RebuildInputs ==
    {a \in BuildInputs(SmallTexts, SmallVecs, SmallCats) :
        ~a.categories.given \/ Len(a.categories.list) = Len(a.sentences)}

NoArgs == [sentences |-> <<>>, vectors |-> <<>>, categories |-> NoCategories]

(***************************************************************************)
(* networkx.Graph: an undirected simple graph.  nodes is the node set,     *)
(* data the attribute dictionary of each node, edges the attribute         *)
(* dictionary of each edge, keyed by the unordered pair {u, v}.            *)
(***************************************************************************)
EmptyDict == <<>>

\* order is the iteration order of the node dictionary (insertion order).
EmptyGraph == [nodes |-> {}, order |-> <<>>, data |-> <<>>, edges |-> <<>>]

\* nx.Graph.add_node(n, **attr): creates the node or updates its attributes.
GraphAddNode(g, n, attr) ==
    IF n \in g.nodes
    THEN [g EXCEPT !.data = [m \in g.nodes |-> IF m = n THEN attr @@ g.data[m] ELSE g.data[m]]]
    ELSE [g EXCEPT !.nodes = g.nodes \cup {n},
                   !.order = Append(g.order, n),
                   !.data = [m \in g.nodes \cup {n} |-> IF m = n THEN attr ELSE g.data[m]]]

\* nx.Graph.add_edge(u, v, **attr): creates missing endpoints with no attributes;
\* an existing edge between u and v keeps its dictionary, which attr updates.
GraphAddEdge(g, u, v, attr) ==
    LET g1 == IF u \in g.nodes THEN g ELSE GraphAddNode(g, u, EmptyDict)
        g2 == IF v \in g1.nodes THEN g1 ELSE GraphAddNode(g1, v, EmptyDict)
        e == {u, v}
        old == IF e \in DOMAIN g2.edges THEN g2.edges[e] ELSE EmptyDict
    IN [g2 EXCEPT !.edges = [f \in DOMAIN g2.edges \cup {e} |->
                                IF f = e THEN attr @@ old ELSE g2.edges[f]]]

\* dict.get(key): None when the key is missing.
DictGet(d, key) == IF key \in DOMAIN d THEN d[key] ELSE Null

(***************************************************************************)
(* sklearn cosine_similarity on integer rows.  The similarity of u and v   *)
(* is dot / sqrt(nu * nv), kept exactly as the pair <<dot, nu * nv>>; a    *)
(* zero row is normalised to itself, so its similarity to anything is 0.   *)
(***************************************************************************)
Dot(u, v) == u[1] * v[1] + u[2] * v[2]

Sim(u, v) ==
    IF Dot(u, u) = 0 \/ Dot(v, v) = 0 THEN <<0, 1>> ELSE <<Dot(u, v), Dot(u, u) * Dot(v, v)>>

\* s[1] / sqrt(s[2]) >= ThresholdNum / ThresholdDen
SimGEThreshold(s) ==
    LET lhs == s[1] * s[1] * ThresholdDen * ThresholdDen
        rhs == ThresholdNum * ThresholdNum * s[2]
    IN IF ThresholdNum >= 0
       THEN s[1] >= 0 /\ lhs >= rhs
       ELSE s[1] >= 0 \/ lhs <= rhs

(***************************************************************************)
(* HSKGBuilder.build                                                       *)
(***************************************************************************)
\* build without the call of clear
ClearKeepsGraph(g) == g

\* self.graph.clear()
Clear(g) == EmptyGraph

\* categories = categories or [None] * len(sentences): None and [] are falsy.
EffectiveCategories(sentences, categories) ==
    IF ~categories.given \/ categories.list = <<>>
    THEN [i \in 1..Len(sentences) |-> Null]
    ELSE categories.list

\* zip(sentences, categories) stops at the shorter list.
ZipLen(sentences, cats) == IF Len(sentences) <= Len(cats) THEN Len(sentences) ELSE Len(cats)

\* text=sent, category=cat, embedding=vectors[idx].tolist()
NodeAttrs(sent, cat, row) == [text |-> sent, category |-> cat, embedding |-> row]

\* The loop over enumerate(zip(sentences, categories)) from index idx on;
\* vectors[idx] raises IndexError when idx is not a row of vectors.
RECURSIVE AddNodes(_, _, _, _, _)
AddNodes(g, sentences, cats, vectors, idx) ==
    IF idx >= ZipLen(sentences, cats) THEN [graph |-> g, ret |-> "ok"]
    ELSE IF idx >= Len(vectors) THEN [graph |-> g, ret |-> "IndexError"]
    ELSE AddNodes(GraphAddNode(g, idx, NodeAttrs(sentences[idx + 1], cats[idx + 1], vectors[idx + 1])),
                  sentences, cats, vectors, idx + 1)

\* cosine_similarity(vectors) validates its argument (check_pairwise_arrays):
\* an array of 0 samples raises ValueError.
CosineSimilarityRaises(vectors) == Len(vectors) = 0

SimilarityAttrs(s) == [kind |-> "similarity", weight |-> s]

\* sims[i, j] >= self.threshold
EdgeWanted(s) == SimGEThreshold(s)

\* for i in range(n): for j in range(i + 1, n): ...
RECURSIVE SimLoop(_, _, _, _)
SimLoop(g, vectors, i, j) ==
    IF i >= Len(vectors) THEN g
    ELSE IF j >= Len(vectors) THEN SimLoop(g, vectors, i + 1, i + 2)
    ELSE LET s == Sim(vectors[i + 1], vectors[j + 1])
         IN SimLoop(IF EdgeWanted(s) THEN GraphAddEdge(g, i, j, SimilarityAttrs(s)) ELSE g,
                    vectors, i, j + 1)

\* HSKGBuilder._add_similarity_edges
AddSimilarityEdges(g, vectors) == SimLoop(g, vectors, 0, 1)

\* if cat: None and the empty string are falsy.
Truthy(cat) == cat # Null /\ cat # ""

\* cat_groups.setdefault(cat, []).append(node) on the insertion-ordered
\* dictionary cat_groups, kept as a sequence of [cat, nodes] entries.
GroupAppend(groups, cat, node) ==
    IF \E k \in 1..Len(groups) : groups[k].cat = cat
    THEN [k \in 1..Len(groups) |->
            IF groups[k].cat = cat
            THEN [groups[k] EXCEPT !.nodes = Append(groups[k].nodes, node)]
            ELSE groups[k]]
    ELSE Append(groups, [cat |-> cat, nodes |-> <<node>>])

\* for node, data in self.graph.nodes(data=True): from position k of the node order on
RECURSIVE CatGroups(_, _, _)
CatGroups(g, k, groups) ==
    IF k > Len(g.order) THEN groups
    ELSE LET node == g.order[k]
             cat == DictGet(g.data[node], "category")
         IN CatGroups(g, k + 1, IF Truthy(cat) THEN GroupAppend(groups, cat, node) ELSE groups)

\* for i in range(len(nodes)): for j in range(i + 1, len(nodes)): add_edge(..., kind="symbolic", label=cat)
RECURSIVE CliqueLoop(_, _, _, _, _)
CliqueLoop(g, cat, nodes, i, j) ==
    IF i > Len(nodes) THEN g
    ELSE IF j > Len(nodes) THEN CliqueLoop(g, cat, nodes, i + 1, i + 2)
    ELSE CliqueLoop(GraphAddEdge(g, nodes[i], nodes[j], [kind |-> "symbolic", label |-> cat]),
                    cat, nodes, i, j + 1)

\* for cat, nodes in cat_groups.items(): from group k on
RECURSIVE GroupLoop(_, _, _)
GroupLoop(g, groups, k) ==
    IF k > Len(groups) THEN g
    ELSE GroupLoop(CliqueLoop(g, groups[k].cat, groups[k].nodes, 1, 2), groups, k + 1)

\* _add_symbolic_edges visiting the first category group only
AddSymbolicEdgesFirstGroup(g) ==
    LET groups == CatGroups(g, 1, <<>>)
    IN IF groups = <<>> THEN g ELSE GroupLoop(g, <<groups[1]>>, 1)

\* _add_symbolic_edges with the groups of cat_groups visited in the given
\* order (a sequence of positions of cat_groups.items()).
AddSymbolicEdgesInOrder(g, order) ==
    LET groups == CatGroups(g, 1, <<>>)
    IN GroupLoop(g, [k \in 1..Len(order) |-> groups[order[k]]], 1)

\* HSKGBuilder._add_symbolic_edges
AddSymbolicEdges(g) == GroupLoop(g, CatGroups(g, 1, <<>>), 1)

\* HSKGBuilder.build on a builder whose graph is g0: the graph left in the
\* builder and how the call ended ("ok": the graph is returned).
BuildOutcome(g0, a) ==
    LET cats == EffectiveCategories(a.sentences, a.categories)
        r == AddNodes(Clear(g0), a.sentences, cats, a.vectors, 0)
    IN IF r.ret # "ok" THEN r
       ELSE IF CosineSimilarityRaises(a.vectors) THEN [graph |-> r.graph, ret |-> "ValueError"]
       ELSE [graph |-> AddSymbolicEdges(AddSimilarityEdges(r.graph, a.vectors)), ret |-> "ok"]

(***************************************************************************)
(* POST /api/graph (app/routes.py)                                         *)
(***************************************************************************)
\* The threads the server handles requests in.
Threads == {1, 2}

\* A thread that was given no request yet.
NoRequest == [pc |-> "idle", texts |-> <<>>, categories |-> NoCategories, resp |-> [status |-> 0]]

\* _embedder.encode(texts): one row per text, a function of the text.
Encode(texts) ==
    [i \in 1..Len(texts) |->
        IF texts[i] = "the button is hard to click" THEN <<1, 0>> ELSE <<4, 3>>]

\* The JSON bodies posted: "text" a list of one or two sentences,
\* "categories" absent or a list.
Payloads ==
    [texts : {<<"the button is hard to click">>,
              <<"the button is hard to click", "add a settings panel">>},
     categories : {NoCategories, [given |-> TRUE, list |-> <<"item">>],
                   [given |-> TRUE, list |-> <<"item", "item">>]}]

\* if categories and len(categories) != len(texts): 400
PayloadRejected(p) ==
    p.categories.given /\ p.categories.list # <<>> /\ Len(p.categories.list) # Len(p.texts)

\* The loop over graph.edges(data=True): edge_kinds[kind] = edge_kinds.get(kind, 0) + 1
EdgeKinds(g) ==
    [kind \in {g.edges[e].kind : e \in DOMAIN g.edges} |->
        Cardinality({e \in DOMAIN g.edges : g.edges[e].kind = kind})]

\* The body of the 200 response computed from graph g.
GraphStats(g) ==
    [status |-> 200, nodes |-> Cardinality(g.nodes), edges |-> Cardinality(DOMAIN g.edges),
     edge_breakdown |-> EdgeKinds(g)]

(***************************************************************************)
(* KnowledgeGraph (hskg/graph/knowledge_graph.py)                          *)
(*                                                                         *)
(* Node and Relation are mutable Python objects: the graph, its indices    *)
(* and the relations hold references to them.  A heap maps each live       *)
(* reference to the object's fields; objects nothing refers to any more    *)
(* are dropped.  An operation works on the record k of the heaps and the   *)
(* graph's fields and yields the record left behind and how the call ended:*)
(* "ok", or the exception raised ("NotFound" and "DanglingEndpoint" are    *)
(* the ValueErrors the explicit checks raise, "ListRemoveError" is the     *)
(* ValueError of list.remove).                                             *)
(***************************************************************************)
\* The ids (uuid4 values) nodes and relations carry.
NodeIds == {1, 2}
RelIds == 1..MaxRelIds

\* Members of NodeType and RelationType, and node names, the calls draw from.
NodeTypes == {"CONCEPT", "ENTITY"}
RelTypes == {"RELATED_TO"}
Names == {"button", "panel"}
PlainNames == {"button"}
PlainTypes == {"CONCEPT"}

Range(f) == {f[x] : x \in DOMAIN f}

SetMin(S) == CHOOSE x \in S : \A y \in S : x <= y

DictSet(d, key, val) == (key :> val) @@ d

DictDel(d, key) == [x \in DOMAIN d \ {key} |-> d[x]]

EmptyView == [nodes |-> {}, edges |-> {}]

\* KnowledgeGraph.__init__: empty maps, one empty list per NodeType.
EmptyKG ==
    [hn |-> <<>>, hr |-> <<>>, nodes |-> <<>>, relations |-> <<>>,
     name_index |-> <<>>, type_index |-> [t \in NodeTypes |-> <<>>], view |-> EmptyView]

Done(k) == [k |-> k, ret |-> "ok"]

Raise(k, exc) == [k |-> k, ret |-> exc]

\* nx.MultiDiGraph.add_node
ViewAddNode(view, n) == [view EXCEPT !.nodes = @ \cup {n}]

\* nx.MultiDiGraph.remove_node: the node goes with every edge touching it.
ViewRemoveNode(view, n) ==
    [nodes |-> view.nodes \ {n},
     edges |-> {e \in view.edges : e[1] # n /\ e[2] # n}]

\* nx.MultiDiGraph.add_edge(u, v, key): missing endpoints are created; an
\* edge (u, v, key) that exists is updated in place.
ViewAddEdge(view, u, v, key) ==
    [nodes |-> view.nodes \cup {u, v}, edges |-> view.edges \cup {<<u, v, key>>}]

\* nx.MultiDiGraph.remove_edge(u, v, key) raises NetworkXError without that edge.
ViewHasEdge(view, u, v, key) == <<u, v, key>> \in view.edges

ViewRemoveEdge(view, u, v, key) == [view EXCEPT !.edges = @ \ {<<u, v, key>>}]

\* list.remove(x) removes the first item equal to x, and Node.__eq__ compares
\* ids: the position of that item, 0 when there is none.
FirstEq(k, list, ref) ==
    LET hits == {i \in 1..Len(list) : k.hn[list[i]].id = k.hn[ref].id}
    IN IF hits = {} THEN 0 ELSE SetMin(hits)

RemoveAt(list, i) == SubSeq(list, 1, i - 1) \o SubSeq(list, i + 1, Len(list))

\* if name not in index: index[name] = []; index[name].append(node)
IndexAppend(index, key, ref) ==
    IF key \in DOMAIN index THEN DictSet(index, key, Append(index[key], ref))
    ELSE DictSet(index, key, <<ref>>)

\* KnowledgeGraph.update_node, lines 87-101: store the node, index it, replace
\* it in the structural view.
StoreUpdatedNode(k, ref) ==
    LET node == k.hn[ref]
        k1 == [k EXCEPT !.nodes = DictSet(@, node.id, ref),
                        !.name_index = IndexAppend(@, node.name, ref),
                        !.type_index = IndexAppend(@, node.type, ref)]
    IN IF node.id \notin k1.view.nodes THEN Raise(k1, "NetworkXError")
       ELSE Done([k1 EXCEPT !.view = ViewAddNode(ViewRemoveNode(@, node.id), node.id)])

\* KnowledgeGraph.update_node
UpdateNode(k, ref) ==
    LET node == k.hn[ref] IN
    IF node.id \notin DOMAIN k.nodes THEN Raise(k, "NotFound")
    ELSE
        LET old == k.nodes[node.id]
            oldname == k.hn[old].name
            oldtype == k.hn[old].type
        IN
        IF oldname \notin DOMAIN k.name_index THEN Raise(k, "KeyError")
        ELSE
            LET i == FirstEq(k, k.name_index[oldname], old) IN
            IF i = 0 THEN Raise(k, "ListRemoveError")
            ELSE
                LET rest == RemoveAt(k.name_index[oldname], i)
                    k1 == [k EXCEPT !.name_index =
                              IF rest = <<>> THEN DictDel(@, oldname) ELSE DictSet(@, oldname, rest)]
                    j == FirstEq(k1, k1.type_index[oldtype], old)
                IN
                IF j = 0 THEN Raise(k1, "ListRemoveError")
                ELSE StoreUpdatedNode(
                        [k1 EXCEPT !.type_index = DictSet(@, oldtype, RemoveAt(@[oldtype], j))], ref)

\* KnowledgeGraph.add_node
AddNode(k, ref) ==
    LET node == k.hn[ref] IN
    IF node.id \in DOMAIN k.nodes THEN UpdateNode(k, ref)
    ELSE Done([k EXCEPT !.nodes = DictSet(@, node.id, ref),
                        !.name_index = IndexAppend(@, node.name, ref),
                        !.type_index = IndexAppend(@, node.type, ref),
                        !.view = ViewAddNode(@, node.id)])

SourceId(k, rref) == k.hn[k.hr[rref].source].id

TargetId(k, rref) == k.hn[k.hr[rref].target].id

\* update_relation with the assignment to self.relations ahead of the id test
UpdateRelationStoresFirst(k, rref) ==
    LET rel == k.hr[rref]
        k1 == [k EXCEPT !.relations = DictSet(@, rel.id, rref)]
    IN IF rel.id \notin DOMAIN k.relations THEN Raise(k1, "NotFound")
       ELSE IF ~ViewHasEdge(k1.view, SourceId(k, rref), TargetId(k, rref), rel.id)
       THEN Raise(k1, "NetworkXError")
       ELSE Done(k1)

\* KnowledgeGraph.update_relation
UpdateRelation(k, rref) ==
    LET rel == k.hr[rref] IN
    IF rel.id \notin DOMAIN k.relations THEN Raise(k, "NotFound")
    ELSE
        LET k1 == [k EXCEPT !.relations = DictSet(@, rel.id, rref)] IN
        IF ~ViewHasEdge(k1.view, SourceId(k, rref), TargetId(k, rref), rel.id)
        THEN Raise(k1, "NetworkXError")
        ELSE Done([k1 EXCEPT !.view =
                      ViewAddEdge(ViewRemoveEdge(@, SourceId(k, rref), TargetId(k, rref), rel.id),
                                  SourceId(k, rref), TargetId(k, rref), rel.id)])

\* add_relation with the duplicate-id test ahead of the endpoint tests
AddRelationUpdateFirst(k, rref) ==
    LET rel == k.hr[rref] IN
    IF rel.id \in DOMAIN k.relations THEN UpdateRelation(k, rref)
    ELSE IF SourceId(k, rref) \notin DOMAIN k.nodes THEN Raise(k, "DanglingEndpoint")
    ELSE IF TargetId(k, rref) \notin DOMAIN k.nodes THEN Raise(k, "DanglingEndpoint")
    ELSE Done([k EXCEPT !.relations = DictSet(@, rel.id, rref),
                        !.view = ViewAddEdge(@, SourceId(k, rref), TargetId(k, rref), rel.id)])

\* KnowledgeGraph.add_relation
AddRelation(k, rref) ==
    LET rel == k.hr[rref] IN
    IF SourceId(k, rref) \notin DOMAIN k.nodes THEN Raise(k, "DanglingEndpoint")
    ELSE IF TargetId(k, rref) \notin DOMAIN k.nodes THEN Raise(k, "DanglingEndpoint")
    ELSE IF rel.id \in DOMAIN k.relations THEN UpdateRelation(k, rref)
    ELSE Done([k EXCEPT !.relations = DictSet(@, rel.id, rref),
                        !.view = ViewAddEdge(@, SourceId(k, rref), TargetId(k, rref), rel.id)])

(***************************************************************************)
(* The callers of the knowledge graph: the objects they pass                *)
(***************************************************************************)
\* The record of the knowledge graph's current state.
KG ==
    [hn |-> h_nodes, hr |-> h_rels, nodes |-> kg_nodes, relations |-> kg_relations,
     name_index |-> kg_name_index, type_index |-> kg_type_index, view |-> kg_view]

NewRef(dom) == SetMin((1..(Cardinality(dom) + 1)) \ dom)

\* Node.__init__ / Relation.__init__: self.id = str(uuid.uuid4()), an id that
\* nothing carries yet.
FreeNodeIds(k) ==
    NodeIds \ ({k.hn[r].id : r \in DOMAIN k.hn} \cup DOMAIN k.nodes \cup k.view.nodes)

FreeRelIds(k) ==
    RelIds \ ({k.hr[r].id : r \in DOMAIN k.hr} \cup DOMAIN k.relations
              \cup {e[3] : e \in k.view.edges})

\* A Node argument: a new Node (fresh id), a new object carrying the id of a
\* node of the graph (Node.from_dict, or node.id assigned), or the object
\* stored in the graph, which the caller kept a reference to.
NodeArgs(k, names, types) ==
    [kind : {"new"}, ref : {0}, id : IF FreeNodeIds(k) = {} THEN {} ELSE {SetMin(FreeNodeIds(k))},
     name : names, type : types]
    \cup [kind : {"copy"}, ref : {0}, id : DOMAIN k.nodes, name : names, type : types]
    \cup {[kind |-> "stored", ref |-> r, id |-> k.hn[r].id, name |-> k.hn[r].name,
           type |-> k.hn[r].type] : r \in Range(k.nodes)}

\* The heap with the argument object in it, and the argument's reference.
ResolveNode(k, arg) ==
    IF arg.kind = "stored" THEN [k |-> k, ref |-> arg.ref]
    ELSE LET r == NewRef(DOMAIN k.hn)
         IN [k |-> [k EXCEPT !.hn = DictSet(@, r, [id |-> arg.id, name |-> arg.name, type |-> arg.type])],
             ref |-> r]

\* A Relation argument: a new Relation (fresh id), a new object carrying the
\* id of a relation of the graph, or the stored object.  The endpoints of a
\* new object are Node objects stored in the graph, or (0) a new Node that
\* was never added to it.
Endpoints(k) == Range(k.nodes) \cup (IF FreeNodeIds(k) = {} THEN {} ELSE {0})

RelArgs(k) ==
    [kind : {"new"}, ref : {0}, id : IF FreeRelIds(k) = {} THEN {} ELSE {SetMin(FreeRelIds(k))},
     source : Endpoints(k), target : Endpoints(k), type : RelTypes]
    \cup [kind : {"copy"}, ref : {0}, id : DOMAIN k.relations,
          source : Endpoints(k), target : Endpoints(k), type : RelTypes]
    \cup {[kind |-> "stored", ref |-> r, id |-> k.hr[r].id, source |-> k.hr[r].source,
           target |-> k.hr[r].target, type |-> k.hr[r].type] : r \in DOMAIN k.hr}

ResolveRel(k, arg) ==
    IF arg.kind = "stored" THEN [k |-> k, ref |-> arg.ref]
    ELSE LET outsider == NewRef(DOMAIN k.hn)
             k1 == IF arg.source = 0 \/ arg.target = 0
                   THEN [k EXCEPT !.hn = DictSet(@, outsider,
                            [id |-> SetMin(FreeNodeIds(k)), name |-> "button", type |-> "CONCEPT"])]
                   ELSE k
             src == IF arg.source = 0 THEN outsider ELSE arg.source
             tgt == IF arg.target = 0 THEN outsider ELSE arg.target
             r == MaxRelIds + 1
         IN [k |-> [k1 EXCEPT !.hr = DictSet(@, r,
                        [id |-> arg.id, source |-> src, target |-> tgt, type |-> arg.type])],
             ref |-> r]

\* The elements of a set of integers in increasing order.
RECURSIVE Sorted(_)
Sorted(S) == IF S = {} THEN <<>> ELSE <<SetMin(S)>> \o Sorted(S \ {SetMin(S)})

\* The items of a sequence, each kept where it occurs first.
RECURSIVE Distinct(_, _)
Distinct(seq, seen) ==
    IF seq = <<>> THEN <<>>
    ELSE IF Head(seq) \in seen THEN Distinct(Tail(seq), seen)
    ELSE <<Head(seq)>> \o Distinct(Tail(seq), seen \cup {Head(seq)})

RECURSIVE Concat(_)
Concat(seqs) == IF seqs = <<>> THEN <<>> ELSE Head(seqs) \o Concat(Tail(seqs))

NameOrder == <<"button", "panel", "Button">>
TypeOrder == <<"CONCEPT", "ENTITY">>

\* Objects that nothing refers to any more are gone (reference counting).
\* Which number names an object is not observable, so the live objects are
\* renumbered in the order the graph's fields reach them, and a stored
\* Relation is named by its id.
Collect(k) ==
    LET rids == Sorted(DOMAIN k.relations)
        reach == Distinct(
            [i \in 1..Len(Sorted(DOMAIN k.nodes)) |-> k.nodes[Sorted(DOMAIN k.nodes)[i]]]
            \o Concat([i \in 1..Len(NameOrder) |->
                         IF NameOrder[i] \in DOMAIN k.name_index THEN k.name_index[NameOrder[i]]
                         ELSE <<>>])
            \o Concat([i \in 1..Len(TypeOrder) |-> k.type_index[TypeOrder[i]]])
            \o Concat([i \in 1..Len(rids) |->
                         <<k.hr[k.relations[rids[i]]].source, k.hr[k.relations[rids[i]]].target>>]),
            {})
        new(r) == CHOOSE i \in 1..Len(reach) : reach[i] = r
    IN [hn |-> [i \in 1..Len(reach) |-> k.hn[reach[i]]],
        hr |-> [id \in DOMAIN k.relations |->
                  [k.hr[k.relations[id]] EXCEPT !.source = new(@), !.target = new(@)]],
        nodes |-> [id \in DOMAIN k.nodes |-> new(k.nodes[id])],
        relations |-> [id \in DOMAIN k.relations |-> id],
        name_index |-> [n \in DOMAIN k.name_index |->
                          [i \in 1..Len(k.name_index[n]) |-> new(k.name_index[n][i])]],
        type_index |-> [t \in DOMAIN k.type_index |->
                          [i \in 1..Len(k.type_index[t]) |-> new(k.type_index[t][i])]],
        view |-> k.view]

(***************************************************************************)
(* Node, Relation and KnowledgeGraph: the serialized form                  *)
(* NodeType and RelationType members are written as their names, so        *)
(* type.name and NodeType[name] are both the identity on them.             *)
(***************************************************************************)
\* An Optional argument: None, or a value.
NotGiven == [given |-> FALSE, value |-> <<>>]

Given(v) == [given |-> TRUE, value |-> v]

\* properties or {}: None and the empty dictionary give a new empty dictionary.
PropsOr(properties) ==
    IF ~properties.given \/ properties.value = EmptyDict THEN EmptyDict ELSE properties.value

\* Node.__init__; id stands for the uuid4 value it generates.
NodeInit(id, node_type, name, properties, embedding) ==
    [id |-> id, type |-> node_type, name |-> name, properties |-> PropsOr(properties),
     embedding |-> embedding, labels |-> <<node_type>>]

\* Node.add_label
NodeAddLabel(node, label) ==
    IF label \in Range(node.labels) THEN node ELSE [node EXCEPT !.labels = Append(@, label)]

\* Node.add_property: self.properties[key] = value
NodeAddProperty(node, key, value) == [node EXCEPT !.properties = DictSet(@, key, value)]

\* Relation.__init__; source and target are Node references.
RelationInit(id, source, target, rel_type, properties) ==
    [id |-> id, source |-> source, target |-> target, type |-> rel_type,
     properties |-> PropsOr(properties)]

\* Node.to_dict
NodeToDict(node) ==
    [id |-> node.id, type |-> node.type, name |-> node.name, properties |-> node.properties,
     labels |-> node.labels, has_embedding |-> node.embedding.given]

\* Node.from_dict with the labels the constructor sets left in place
NodeFromDictDefaultLabels(data) ==
    [NodeInit(0, data.type, data.name, Given(data.properties), NotGiven) EXCEPT !.id = data.id]

\* Node.from_dict: the constructor is called without an embedding.
NodeFromDict(data) ==
    [NodeInit(0, data.type, data.name, Given(data.properties), NotGiven)
        EXCEPT !.id = data.id, !.labels = data.labels]

\* Relation.to_dict
RelationToDict(k, rel) ==
    [id |-> rel.id, source_id |-> k.hn[rel.source].id, target_id |-> k.hn[rel.target].id,
     type |-> rel.type, properties |-> rel.properties]

\* node_lookup.get(id): None (written 0, which is no reference) without that key.
LookupGet(node_lookup, id) == IF id \in DOMAIN node_lookup THEN node_lookup[id] ELSE 0

\* Relation.from_dict: the new Relation, or the ValueError of a missing endpoint.
RelationFromDict(data, node_lookup) ==
    LET source == LookupGet(node_lookup, data.source_id)
        target == LookupGet(node_lookup, data.target_id)
    IN IF source = 0 \/ target = 0
       THEN [ret |-> "DanglingEndpoint"]
       ELSE [ret |-> "ok",
             rel |-> [RelationInit(0, source, target, data.type, Given(data.properties))
                         EXCEPT !.id = data.id]]

\* The sequences that list every element of a set once.
RECURSIVE Perms(_)
Perms(S) ==
    IF S = {} THEN {<<>>}
    ELSE UNION {{<<x>> \o p : p \in Perms(S \ {x})} : x \in S}

\* KnowledgeGraph.to_dict; norder and rorder are the orders in which the
\* dictionaries self.nodes and self.relations hold their keys.
ToDict(k, norder, rorder) ==
    [nodes |-> [i \in 1..Len(norder) |-> NodeToDict(k.hn[k.nodes[norder[i]]])],
     relations |-> [i \in 1..Len(rorder) |-> RelationToDict(k, k.hr[k.relations[rorder[i]]])]]

\* The forms to_dict can return for this graph.
ToDicts(k) ==
    {ToDict(k, norder, rorder) : norder \in Perms(DOMAIN k.nodes), rorder \in Perms(DOMAIN k.relations)}

\* KnowledgeGraph.from_dict, lines 295-299, from node i of the list on.
RECURSIVE FromDictNodes(_, _, _, _)
FromDictNodes(k, node_lookup, nodes, i) ==
    IF i > Len(nodes) THEN [ret |-> "ok", k |-> k, node_lookup |-> node_lookup]
    ELSE LET ref == NewRef(DOMAIN k.hn)
             node == NodeFromDict(nodes[i])
             res == AddNode([k EXCEPT !.hn = DictSet(@, ref, node)], ref)
         IN IF res.ret # "ok" THEN [ret |-> res.ret, k |-> res.k, node_lookup |-> node_lookup]
            ELSE FromDictNodes(res.k, DictSet(node_lookup, node.id, ref), nodes, i + 1)

\* KnowledgeGraph.from_dict, lines 302-304, from relation i of the list on.
RECURSIVE FromDictRelations(_, _, _, _)
FromDictRelations(k, node_lookup, relations, i) ==
    IF i > Len(relations) THEN Done(k)
    ELSE LET made == RelationFromDict(relations[i], node_lookup) IN
         IF made.ret # "ok" THEN Raise(k, made.ret)
         ELSE LET rref == NewRef(DOMAIN k.hr)
                  res == AddRelation([k EXCEPT !.hr = DictSet(@, rref, made.rel)], rref)
              IN IF res.ret # "ok" THEN res
                 ELSE FromDictRelations(res.k, node_lookup, relations, i + 1)

\* from_dict that leaves out a relation whose endpoint is missing
FromDictSkipsDangling(data) ==
    LET ns == FromDictNodes(EmptyKG, EmptyDict, data.nodes, 1)
        kept == SelectSeq(data.relations,
                    LAMBDA d : d.source_id \in DOMAIN ns.node_lookup
                               /\ d.target_id \in DOMAIN ns.node_lookup)
    IN IF ns.ret # "ok" THEN Raise(ns.k, ns.ret)
       ELSE FromDictRelations(ns.k, ns.node_lookup, kept, 1)

\* KnowledgeGraph.from_dict
FromDict(data) ==
    LET ns == FromDictNodes(EmptyKG, EmptyDict, data.nodes, 1)
    IN IF ns.ret # "ok" THEN Raise(ns.k, ns.ret)
       ELSE FromDictRelations(ns.k, ns.node_lookup, data.relations, 1)

(***************************************************************************)
(* KnowledgeGraph: the queries                                             *)
(* A str is written as a TLA+ string; Spell gives the characters of the    *)
(* strings that names and name filters are drawn from.                     *)
(***************************************************************************)
Spell ==
    [button |-> <<"b", "u", "t", "t", "o", "n">>,
     Button |-> <<"B", "u", "t", "t", "o", "n">>,
     panel |-> <<"p", "a", "n", "e", "l">>,
     BUT |-> <<"B", "U", "T">>,
     an |-> <<"a", "n">>,
     empty |-> <<>>]

\* str.lower() on the characters in use.
LowerChar(c) == IF c \in {"B", "U", "T"} THEN [B |-> "b", U |-> "u", T |-> "t"][c] ELSE c

Lower(chars) == [i \in 1..Len(chars) |-> LowerChar(chars[i])]

\* a in b, for two str
Contains(a, b) ==
    \E i \in 0..(Len(b) - Len(a)) : SubSeq(b, i + 1, i + Len(a)) = a

\* find_nodes, lines 134-144: every requested key is a key of the node's
\* properties, with an equal value.
PropertiesMatch(node, properties) ==
    \A key \in DOMAIN properties :
        key \in DOMAIN node.properties /\ node.properties[key] = properties[key]

\* KnowledgeGraph.find_nodes: the list of Node objects it returns.  The order
\* of self.nodes.values() is not modelled: the nodes come in the order of
\* their ids.
FindNodes(k, name, node_type, properties) ==
    LET ids == Sorted(DOMAIN k.nodes)
        candidates == IF node_type.given THEN k.type_index[node_type.value]
                      ELSE [i \in 1..Len(ids) |-> k.nodes[ids[i]]]
        ByName(r) == Contains(Lower(Spell[name.value]), Lower(Spell[k.hn[r].name]))
        named == IF name.given THEN SelectSeq(candidates, ByName) ELSE candidates
        ByProps(r) == PropertiesMatch(k.hn[r], properties.value)
    IN IF properties.given /\ properties.value # EmptyDict THEN SelectSeq(named, ByProps)
       ELSE named

\* KnowledgeGraph.find_relations: the Relation objects it returns, in the
\* order of their ids (the order of self.relations.values() is not modelled).
FindRelations(k, source_id, target_id, rel_type) ==
    LET ids == Sorted(DOMAIN k.relations)
        Keep(rref) ==
            /\ ~(source_id.given /\ SourceId(k, rref) # source_id.value)
            /\ ~(target_id.given /\ TargetId(k, rref) # target_id.value)
            /\ ~(rel_type.given /\ k.hr[rref].type # rel_type.value)
    IN SelectSeq([i \in 1..Len(ids) |-> k.relations[ids[i]]], Keep)

\* get_neighbors without the rel_types test.
GetNeighborsOfAnyType(k, node_id, direction, rel_types) ==
    IF node_id \notin DOMAIN k.nodes THEN <<>>
    ELSE LET ins == FindRelations(k, NotGiven, Given(node_id), NotGiven)
             outs == FindRelations(k, Given(node_id), NotGiven, NotGiven)
         IN (IF direction \in {"in", "both"}
             THEN [i \in 1..Len(ins) |-> <<k.hr[ins[i]].source, ins[i], k.nodes[node_id]>>]
             ELSE <<>>)
            \o (IF direction \in {"out", "both"}
                THEN [i \in 1..Len(outs) |-> <<k.nodes[node_id], outs[i], k.hr[outs[i]].target>>]
                ELSE <<>>)

\* KnowledgeGraph.get_neighbors: the (source, relation, target) tuples of
\* Node, Relation and Node objects it returns.
GetNeighbors(k, node_id, direction, rel_types) ==
    IF node_id \notin DOMAIN k.nodes THEN <<>>
    ELSE LET Wanted(rref) == ~rel_types.given \/ k.hr[rref].type \in rel_types.value
             ins == SelectSeq(FindRelations(k, NotGiven, Given(node_id), NotGiven), Wanted)
             outs == SelectSeq(FindRelations(k, Given(node_id), NotGiven, NotGiven), Wanted)
         IN (IF direction \in {"in", "both"}
             THEN [i \in 1..Len(ins) |-> <<k.hr[ins[i]].source, ins[i], k.nodes[node_id]>>]
             ELSE <<>>)
            \o (IF direction \in {"out", "both"}
                THEN [i \in 1..Len(outs) |-> <<k.nodes[node_id], outs[i], k.hr[outs[i]].target>>]
                ELSE <<>>)

(***************************************************************************)
(* InMemoryStorage (hskg/db/in_memory_storage.py)                          *)
(* The created_at and updated_at texts of rows and metadata are left out.  *)
(***************************************************************************)
\* rel_id = str(uuid.uuid4()): the id of the row save_graph writes in stored
\* graph gid for the relation rid, an id that nothing else carries.
RowId(gid, rid) == gid * (MaxRelIds + 1) + rid

\* save_graph, lines 44-49: node rows, keyed by the node's id.
RECURSIVE SaveNodes(_, _, _, _)
SaveNodes(rows, nodes, gid, i) ==
    IF i > Len(nodes) THEN rows
    ELSE SaveNodes(DictSet(rows, nodes[i].id, [graph_id |-> gid] @@ nodes[i]), nodes, gid, i + 1)

\* save_graph, lines 52-58: relation rows, each under a new id.
RECURSIVE SaveRelations(_, _, _, _)
SaveRelations(rows, relations, gid, i) ==
    IF i > Len(relations) THEN rows
    ELSE SaveRelations(
            DictSet(rows, RowId(gid, relations[i].id),
                    [id |-> RowId(gid, relations[i].id), graph_id |-> gid] @@ relations[i]),
            relations, gid, i + 1)

\* InMemoryStorage.save_graph; gid is the uuid4 value it generates, data is graph.to_dict().
SaveGraph(store, data, gid) ==
    [graphs |-> DictSet(store.graphs, gid,
                    [id |-> gid, name |-> "HSKG",
                     metadata |-> [node_count |-> Len(data.nodes),
                                   relation_count |-> Len(data.relations)]]),
     nodes |-> SaveNodes(store.nodes, data.nodes, gid, 1),
     relations |-> SaveRelations(store.relations, data.relations, gid, 1)]

\* load_graph, lines 72-84, over the keys of self.nodes from position i on.
RECURSIVE LoadNodes(_, _, _, _, _, _)
LoadNodes(store, gid, k, node_lookup, keys, i) ==
    IF i > Len(keys) THEN [ret |-> "ok", k |-> k, node_lookup |-> node_lookup]
    ELSE LET row == store.nodes[keys[i]] IN
         IF row.graph_id # gid THEN LoadNodes(store, gid, k, node_lookup, keys, i + 1)
         ELSE LET ref == NewRef(DOMAIN k.hn)
                  node == [NodeInit(0, row.type, row.name, Given(row.properties), NotGiven)
                              EXCEPT !.id = row.id, !.labels = row.labels]
                  res == AddNode([k EXCEPT !.hn = DictSet(@, ref, node)], ref)
              IN IF res.ret # "ok" THEN [ret |-> res.ret, k |-> res.k, node_lookup |-> node_lookup]
                 ELSE LoadNodes(store, gid, res.k, DictSet(node_lookup, keys[i], ref), keys, i + 1)

\* load_graph, lines 87-107, over the keys of self.relations from position i on.
RECURSIVE LoadRelations(_, _, _, _, _, _)
LoadRelations(store, gid, k, node_lookup, keys, i) ==
    IF i > Len(keys) THEN Done(k)
    ELSE LET row == store.relations[keys[i]]
             source == LookupGet(node_lookup, row.source_id)
             target == LookupGet(node_lookup, row.target_id)
         IN
         IF row.graph_id # gid \/ source = 0 \/ target = 0
         THEN LoadRelations(store, gid, k, node_lookup, keys, i + 1)
         ELSE LET rref == NewRef(DOMAIN k.hr)
                  rel == [RelationInit(0, source, target, row.type, Given(row.properties))
                             EXCEPT !.id = row.id]
                  res == AddRelation([k EXCEPT !.hr = DictSet(@, rref, rel)], rref)
              IN IF res.ret # "ok" THEN res
                 ELSE LoadRelations(store, gid, res.k, node_lookup, keys, i + 1)

\* load_graph failing, as Relation.from_dict does, on a relation row whose
\* endpoint is not among the loaded nodes.
LoadGraphFailsOnDangling(store, gid) ==
    IF gid \notin DOMAIN store.graphs THEN Raise(EmptyKG, "NotFound")
    ELSE LET ns == LoadNodes(store, gid, EmptyKG, EmptyDict, Sorted(DOMAIN store.nodes), 1)
         IN IF ns.ret # "ok" THEN Raise(ns.k, ns.ret)
            ELSE IF \E key \in DOMAIN store.relations :
                        /\ store.relations[key].graph_id = gid
                        /\ \/ LookupGet(ns.node_lookup, store.relations[key].source_id) = 0
                           \/ LookupGet(ns.node_lookup, store.relations[key].target_id) = 0
            THEN Raise(ns.k, "DanglingEndpoint")
            ELSE LoadRelations(store, gid, ns.k, ns.node_lookup, Sorted(DOMAIN store.relations), 1)

\* InMemoryStorage.load_graph
LoadGraph(store, gid) ==
    IF gid \notin DOMAIN store.graphs THEN Raise(EmptyKG, "NotFound")
    ELSE LET ns == LoadNodes(store, gid, EmptyKG, EmptyDict, Sorted(DOMAIN store.nodes), 1)
         IN IF ns.ret # "ok" THEN Raise(ns.k, ns.ret)
            ELSE LoadRelations(store, gid, ns.k, ns.node_lookup, Sorted(DOMAIN store.relations), 1)

\* delete_graph without the pass over the relation rows.
DeleteGraphKeepsRelations(store, gid) ==
    IF gid \notin DOMAIN store.graphs THEN [store |-> store, ret |-> FALSE]
    ELSE [store |->
            [graphs |-> DictDel(store.graphs, gid),
             nodes |-> [key \in {x \in DOMAIN store.nodes : store.nodes[x].graph_id # gid}
                          |-> store.nodes[key]],
             relations |-> store.relations],
          ret |-> TRUE]

\* delete_graph without the early return for an id that is not stored.
DeleteGraphNoEarlyReturn(store, gid) ==
    [store |->
        [graphs |-> DictDel(store.graphs, gid),
         nodes |-> [key \in {x \in DOMAIN store.nodes : store.nodes[x].graph_id # gid}
                      |-> store.nodes[key]],
         relations |-> [key \in {x \in DOMAIN store.relations : store.relations[x].graph_id # gid}
                          |-> store.relations[key]]],
     ret |-> TRUE]

\* InMemoryStorage.delete_graph
DeleteGraph(store, gid) ==
    IF gid \notin DOMAIN store.graphs THEN [store |-> store, ret |-> FALSE]
    ELSE [store |->
            [graphs |-> DictDel(store.graphs, gid),
             nodes |-> [key \in {x \in DOMAIN store.nodes : store.nodes[x].graph_id # gid}
                          |-> store.nodes[key]],
             relations |-> [key \in {x \in DOMAIN store.relations : store.relations[x].graph_id # gid}
                              |-> store.relations[key]]],
          ret |-> TRUE]

\* list_graphs counting the rows each graph has now.
ListGraphsLiveCounts(store) ==
    LET ids == Sorted(DOMAIN store.graphs)
    IN [i \in 1..Len(ids) |->
          [id |-> ids[i],
           name |-> store.graphs[ids[i]].name,
           metadata |->
              [node_count |-> Cardinality({key \in DOMAIN store.nodes :
                                              store.nodes[key].graph_id = ids[i]}),
               relation_count |-> Cardinality({key \in DOMAIN store.relations :
                                              store.relations[key].graph_id = ids[i]})]]]

\* InMemoryStorage.list_graphs: one entry per key of self.graphs.
ListGraphs(store) ==
    LET ids == Sorted(DOMAIN store.graphs)
    IN [i \in 1..Len(ids) |->
          [id |-> ids[i], name |-> store.graphs[ids[i]].name,
           metadata |-> store.graphs[ids[i]].metadata]]

(***************************************************************************)
(* GraphStorage (hskg/db/graph_storage.py)                                 *)
(***************************************************************************)
\* The members of StorageType.
StorageTypes == {"POSTGRES", "NEO4J", "IN_MEMORY"}

\* str.upper() on the tags create_storage is called with.
Upper ==
    [neo4j |-> "NEO4J", NEO4J |-> "NEO4J", in_memory |-> "IN_MEMORY", Postgres |-> "POSTGRES",
     sqlite |-> "SQLITE", memory |-> "MEMORY"]

\* The storage_type arguments: a str, or a member of StorageType.
StorageTags ==
    [kind : {"str"}, value : DOMAIN Upper] \cup [kind : {"StorageType"}, value : StorageTypes]

\* create_storage calling the backend class for a type that is not registered.
CreateStorageUnchecked(backends, storage_type, built) ==
    IF storage_type.kind = "str" /\ Upper[storage_type.value] \notin StorageTypes
    THEN [ret |-> "ValueError", instance |-> Null]
    ELSE LET type == IF storage_type.kind = "str" THEN Upper[storage_type.value]
                     ELSE storage_type.value
         IN IF type \notin DOMAIN backends THEN [ret |-> "KeyError", instance |-> Null]
            ELSE IF built THEN [ret |-> "ok", instance |-> backends[type]]
            ELSE [ret |-> "BackendError", instance |-> Null]

\* GraphStorage.create_storage; built: the backend class, called with the
\* keyword arguments, returns an instance (it raises otherwise).
CreateStorage(backends, storage_type, built) ==
    IF storage_type.kind = "str" /\ Upper[storage_type.value] \notin StorageTypes
    THEN [ret |-> "ValueError", instance |-> Null]
    ELSE LET type == IF storage_type.kind = "str" THEN Upper[storage_type.value]
                     ELSE storage_type.value
         IN IF type \notin DOMAIN backends THEN [ret |-> "ValueError", instance |-> Null]
            ELSE IF built THEN [ret |-> "ok", instance |-> backends[type]]
            ELSE [ret |-> "BackendError", instance |-> Null]

(***************************************************************************)
(* State machine of one HSKGBuilder                                        *)
(***************************************************************************)
\* HSKGBuilder.__init__
InitBuilder ==
    /\ b_graph = EmptyGraph
    /\ b_args = NoArgs
    /\ b_ret = "none"
    /\ b_calls = 0
    /\ b_prev = [nodes |-> 0, edges |-> 0]
    /\ req = [t \in Threads |-> NoRequest]

\* No call of the graph was made yet.
NoCall == [op |-> "none", ret |-> "ok", id |-> 0, existed |-> FALSE]

\* KnowledgeGraph.__init__
InitKG ==
    /\ h_nodes = EmptyKG.hn
    /\ h_rels = EmptyKG.hr
    /\ kg_nodes = EmptyKG.nodes
    /\ kg_relations = EmptyKG.relations
    /\ kg_name_index = EmptyKG.name_index
    /\ kg_type_index = EmptyKG.type_index
    /\ kg_view = EmptyKG.view
    /\ kg_last = NoCall

\* No to_dict / from_dict call was made yet.
NoResult == [op |-> "none"]

\* InMemoryStorage.__init__
InitStore ==
    /\ st_graphs = <<>>
    /\ st_nodes = <<>>
    /\ st_relations = <<>>
    /\ st_issued = {}
    /\ st_last = [op |-> "none"]

\* graph_storage.py, lines 82 and 127-128: the registry once the module is imported.
InitFactory == gs_backends = [POSTGRES |-> "PostgresStorage", IN_MEMORY |-> "InMemoryStorage"]

Init == InitBuilder /\ InitKG /\ rt = NoResult /\ InitStore /\ InitFactory

Build(a) ==
    \E out \in {BuildOutcome(b_graph, a)} :
    /\ b_graph' = out.graph
    /\ b_ret' = out.ret
    /\ b_args' = a
    /\ b_calls' = IF b_calls >= 2 THEN 2 ELSE b_calls + 1
    /\ b_prev' = [nodes |-> Cardinality(b_graph.nodes), edges |-> Cardinality(DOMAIN b_graph.edges)]
    /\ UNCHANGED <<req, kgvars, rt, stvars>>

\* One build call on a fresh builder, any arguments.
FirstBuild == b_calls = 0 /\ \E a \in AllInputs : Build(a)

NextBuild == FirstBuild

SpecBuild == Init /\ [][NextBuild]_vars

\* Any number of build calls on the same builder.
Rebuild == \E a \in RebuildInputs : Build(a)

NextRebuild == Rebuild

SpecRebuild == Init /\ [][NextRebuild]_vars

\* Builds of MaxItems items, each with one of two embeddings and one of two
\* categories, on a builder that was used once before.
GroupedInputs ==
    [sentences : {[i \in 1..MaxItems |-> "the button is hard to click"]},
     vectors : [1..MaxItems -> {<<1, 0>>, <<0, 1>>}],
     categories : [given : {TRUE}, list : [1..MaxItems -> {"item", "setting"}]]]

EarlierBuild == b_calls = 0 /\ \E a \in RebuildInputs : Build(a)

GroupedBuild == b_calls = 1 /\ \E a \in GroupedInputs : Build(a)

NextGrouped ==
    \/ EarlierBuild
    \/ GroupedBuild

SpecGrouped == Init /\ [][NextGrouped]_vars

(***************************************************************************)
(* State machine of the POST /api/graph handler: every request thread runs *)
(* build_graph on the module's one _builder.  A thread can be suspended    *)
(* between any two calls it makes on the shared nx.Graph; the steps below  *)
(* are the calls of build and the handler's counting.                      *)
(***************************************************************************)
\* Thread t moves on; the shared graph becomes g.
Step(t, r, g) ==
    /\ req' = [req EXCEPT ![t] = r]
    /\ b_graph' = g
    /\ UNCHANGED <<b_args, b_ret, b_calls, b_prev, kgvars, rt, stvars>>

\* build_graph, lines 49-58: the payload is read and checked.
Receive(t) ==
    /\ req[t].pc = "idle"
    /\ \E p \in Payloads :
          Step(t, [pc |-> IF PayloadRejected(p) THEN "done" ELSE "clear", texts |-> p.texts,
                   categories |-> p.categories,
                   resp |-> [status |-> IF PayloadRejected(p) THEN 400 ELSE 0]], b_graph)

\* build, line 43: self.graph.clear()
BuildClear(t) ==
    /\ req[t].pc = "clear"
    /\ Step(t, [req[t] EXCEPT !.pc = "nodes"], Clear(b_graph))

\* build, lines 44-51: the add_node loop
BuildNodes(t) ==
    /\ req[t].pc = "nodes"
    /\ Step(t, [req[t] EXCEPT !.pc = "similarity"],
            AddNodes(b_graph, req[t].texts, EffectiveCategories(req[t].texts, req[t].categories),
                     Encode(req[t].texts), 0).graph)

\* build, line 53: self._add_similarity_edges(vectors)
BuildSimilarity(t) ==
    /\ req[t].pc = "similarity"
    /\ Step(t, [req[t] EXCEPT !.pc = "symbolic"], AddSimilarityEdges(b_graph, Encode(req[t].texts)))

\* build, lines 54-55: self._add_symbolic_edges(); return self.graph
BuildSymbolic(t) ==
    /\ req[t].pc = "symbolic"
    /\ Step(t, [req[t] EXCEPT !.pc = "stats"], AddSymbolicEdges(b_graph))

\* build_graph, lines 61-73: the counts of the graph build returned, which is
\* the builder's graph itself.
CountGraph(t) ==
    /\ req[t].pc = "stats"
    /\ Step(t, [req[t] EXCEPT !.pc = "done", !.resp = GraphStats(b_graph)], b_graph)

NextRequests ==
    \E t \in Threads :
        \/ Receive(t)
        \/ BuildClear(t)
        \/ BuildNodes(t)
        \/ BuildSimilarity(t)
        \/ BuildSymbolic(t)
        \/ CountGraph(t)

SpecRequests == Init /\ [][NextRequests]_vars

(***************************************************************************)
(* State machine of one KnowledgeGraph and its callers                     *)
(***************************************************************************)
\* The state a call leaves behind in the knowledge graph.
CommitKG(res, call) ==
    \E k \in {Collect(res.k)} :
    /\ h_nodes' = k.hn
    /\ h_rels' = k.hr
    /\ kg_nodes' = k.nodes
    /\ kg_relations' = k.relations
    /\ kg_name_index' = k.name_index
    /\ kg_type_index' = k.type_index
    /\ kg_view' = k.view
    /\ kg_last' = [call EXCEPT !.ret = res.ret]

Commit(res, call) == CommitKG(res, call) /\ UNCHANGED <<bvars, rt, stvars>>

\* The call being made: its method, the id of its argument, and whether that
\* id was a key of the node (relation) map when the call began.
NodeCall(op, a) ==
    [op |-> op, ret |-> "ok", id |-> a.k.hn[a.ref].id,
     existed |-> a.k.hn[a.ref].id \in DOMAIN a.k.nodes]

RelCall(op, a) ==
    [op |-> op, ret |-> "ok", id |-> a.k.hr[a.ref].id,
     existed |-> a.k.hr[a.ref].id \in DOMAIN a.k.relations]

\* kg.add_node(node)
AddNodeWith(args) ==
    \E arg \in args :
        \E a \in {ResolveNode(KG, arg)} : Commit(AddNode(a.k, a.ref), NodeCall("add_node", a))

\* kg.update_node(node)
UpdateNodeWith(args) ==
    \E arg \in args :
        \E a \in {ResolveNode(KG, arg)} : Commit(UpdateNode(a.k, a.ref), NodeCall("update_node", a))

AddNodeCall == AddNodeWith(NodeArgs(KG, Names, NodeTypes))

UpdateNodeCall == UpdateNodeWith(NodeArgs(KG, Names, NodeTypes))

\* The same calls with nodes of one type.
AddPlainNode == AddNodeWith(NodeArgs(KG, PlainNames, PlainTypes))

UpdatePlainNode == UpdateNodeWith(NodeArgs(KG, PlainNames, PlainTypes))

\* kg.add_relation(relation)
AddRelationCall ==
    \E arg \in RelArgs(KG) :
        \E a \in {ResolveRel(KG, arg)} : Commit(AddRelation(a.k, a.ref), RelCall("add_relation", a))

\* kg.update_relation(relation)
UpdateRelationCall ==
    \E arg \in RelArgs(KG) :
        \E a \in {ResolveRel(KG, arg)} : Commit(UpdateRelation(a.k, a.ref), RelCall("update_relation", a))

\* node.name = name: the caller changes a Node object stored in the graph in place.
SetNodeName ==
    \E r \in Range(kg_nodes) : \E name \in Names \ {h_nodes[r].name} :
        /\ h_nodes' = [h_nodes EXCEPT ![r].name = name]
        /\ kg_last' = [NoCall EXCEPT !.op = "node.name ="]
        /\ UNCHANGED <<h_rels, kg_nodes, kg_relations, kg_name_index, kg_type_index, kg_view>>
        /\ UNCHANGED <<bvars, rt, stvars>>

\* node.type = node_type: the caller changes a Node object stored in the graph in place.
SetNodeType ==
    \E r \in Range(kg_nodes) : \E type \in NodeTypes \ {h_nodes[r].type} :
        /\ h_nodes' = [h_nodes EXCEPT ![r].type = type]
        /\ kg_last' = [NoCall EXCEPT !.op = "node.type ="]
        /\ UNCHANGED <<h_rels, kg_nodes, kg_relations, kg_name_index, kg_type_index, kg_view>>
        /\ UNCHANGED <<bvars, rt, stvars>>

\* Nodes and indices: the node calls, and callers that change stored nodes in place.
NextKGNodes ==
    \/ AddNodeCall
    \/ UpdateNodeCall
    \/ SetNodeName
    \/ SetNodeType

SpecKGNodes == Init /\ [][NextKGNodes]_vars

\* Nodes and relations.
NextKG ==
    \/ AddPlainNode
    \/ UpdatePlainNode
    \/ AddRelationCall
    \/ UpdateRelationCall

SpecKG == Init /\ [][NextKG]_vars

(***************************************************************************)
(* State machine of a KnowledgeGraph built by add_node and add_relation,   *)
(* and its serialized form                                                 *)
(***************************************************************************)
\* The Node objects callers construct: the constructor's arguments and the
\* label (None: no label) they add with add_label before the node is used.
NodeMakes ==
    {[type |-> "CONCEPT", name |-> "button", properties |-> NotGiven, embedding |-> NotGiven,
      label |-> Null],
     [type |-> "CONCEPT", name |-> "button", properties |-> Given([color |-> "red"]),
      embedding |-> NotGiven, label |-> "ui"],
     [type |-> "ENTITY", name |-> "panel", properties |-> Given(EmptyDict),
      embedding |-> Given(<<1, 0>>), label |-> Null]}

\* The properties callers give a Relation.
RelationProps == {NotGiven, Given([weight |-> 1])}

\* A Node argument: a new Node.
FullNodeArgs(k) ==
    [kind : {"new"}, id : IF FreeNodeIds(k) = {} THEN {} ELSE {SetMin(FreeNodeIds(k))},
     make : NodeMakes]

ResolveFullNode(k, arg) ==
    LET r == NewRef(DOMAIN k.hn)
        made == NodeInit(arg.id, arg.make.type, arg.make.name, arg.make.properties,
                         arg.make.embedding)
        node == IF arg.make.label = Null THEN made ELSE NodeAddLabel(made, arg.make.label)
    IN [k |-> [k EXCEPT !.hn = DictSet(@, r, node)], ref |-> r]

\* A Relation argument: a new Relation between nodes of the graph, or to or
\* from a Node that was never added to it.
FullRelArgs(k) ==
    {[properties |-> p] @@ arg : arg \in {x \in RelArgs(k) : x.kind = "new"}, p \in RelationProps}

ResolveFullRel(k, arg) ==
    LET a == ResolveRel(k, arg)
        rel == a.k.hr[a.ref]
    IN [k |-> [a.k EXCEPT !.hr[a.ref] =
                  RelationInit(rel.id, rel.source, rel.target, rel.type, arg.properties)],
        ref |-> a.ref]

\* kg.add_node(node)
AddFullNode ==
    \E arg \in FullNodeArgs(KG) :
        \E a \in {ResolveFullNode(KG, arg)} :
            /\ CommitKG(AddNode(a.k, a.ref), NodeCall("add_node", a))
            /\ rt' = NoResult
            /\ UNCHANGED <<bvars, stvars>>

\* kg.add_relation(relation)
AddFullRelation ==
    \E arg \in FullRelArgs(KG) :
        \E a \in {ResolveFullRel(KG, arg)} :
            /\ CommitKG(AddRelation(a.k, a.ref), RelCall("add_relation", a))
            /\ rt' = NoResult
            /\ UNCHANGED <<bvars, stvars>>

\* What the caller of a method that raised holds: no graph.
NoGraph == [graph |-> "none"]

\* What a from_dict call gave.
DictResult(op, data, res) ==
    [op |-> op, data |-> data, ret |-> res.ret,
     k |-> IF res.ret = "ok" THEN Collect(res.k) ELSE NoGraph]

\* KnowledgeGraph.from_dict(kg.to_dict())
RoundTripCall ==
    /\ \E data \in ToDicts(KG) : rt' = DictResult("round_trip", data, FromDict(data))
    /\ UNCHANGED <<bvars, kgvars, stvars>>

\* The serialized forms from_dict is given: a to_dict form of the graph from
\* which any of the nodes were taken out, in any order.
EditedForms(k) ==
    {ToDict(k, norder, rorder) :
        norder \in UNION {Perms(S) : S \in SUBSET DOMAIN k.nodes},
        rorder \in Perms(DOMAIN k.relations)}

\* KnowledgeGraph.from_dict(data)
FromDictCall ==
    /\ \E data \in EditedForms(KG) : rt' = DictResult("from_dict", data, FromDict(data))
    /\ UNCHANGED <<bvars, kgvars, stvars>>

NextDict ==
    \/ AddFullNode
    \/ AddFullRelation
    \/ RoundTripCall
    \/ FromDictCall

SpecDict == Init /\ [][NextDict]_vars

(***************************************************************************)
(* State machine of one InMemoryStorage and the KnowledgeGraph its caller  *)
(* saves                                                                   *)
(***************************************************************************)
\* The record of the storage's current state.
Store == [graphs |-> st_graphs, nodes |-> st_nodes, relations |-> st_relations]

\* The caller changed the graph since the last storage call.
GraphChanged == [op |-> "graph changed"]

\* The Node and Relation arguments of the storage's caller: the objects
\* constructed with properties.
SavedNodeArgs(k) == {x \in FullNodeArgs(k) : x.make.properties.given}

SavedRelArgs(k) == {x \in FullRelArgs(k) : x.properties.given}

\* A Relation argument of update_relation: a new object carrying the id of a
\* relation of the graph.
SavedRelCopies(k) ==
    {[properties |-> p] @@ arg :
        arg \in {x \in RelArgs(k) : x.kind = "copy"}, p \in {x \in RelationProps : x.given}}

\* A call on the graph, between two storage calls.
ChangeGraph(res, call) ==
    /\ CommitKG(res, call)
    /\ st_last' = GraphChanged
    /\ UNCHANGED <<bvars, rt, st_graphs, st_nodes, st_relations, st_issued, gs_backends>>

\* kg.add_node(node)
CallerAddsNode ==
    \E arg \in SavedNodeArgs(KG) :
        \E a \in {ResolveFullNode(KG, arg)} :
            ChangeGraph(AddNode(a.k, a.ref), NodeCall("add_node", a))

\* kg.add_relation(relation)
CallerAddsRelation ==
    \E arg \in SavedRelArgs(KG) :
        \E a \in {ResolveFullRel(KG, arg)} :
            ChangeGraph(AddRelation(a.k, a.ref), RelCall("add_relation", a))

\* kg.update_relation(relation)
CallerUpdatesRelation ==
    \E arg \in SavedRelCopies(KG) :
        \E a \in {ResolveFullRel(KG, arg)} :
            ChangeGraph(UpdateRelation(a.k, a.ref), RelCall("update_relation", a))

\* The state a storage call leaves behind.
CommitStore(store, last) ==
    /\ st_graphs' = store.graphs
    /\ st_nodes' = store.nodes
    /\ st_relations' = store.relations
    /\ st_last' = last
    /\ UNCHANGED <<bvars, kgvars, rt, gs_backends>>

\* storage.save_graph(kg); st_issued holds the ids uuid4 gave so far.
SaveGraphCall ==
    /\ Cardinality(st_issued) < MaxGraphs
    /\ \E gid \in {Cardinality(st_issued) + 1} :
        /\ st_issued' = st_issued \cup {gid}
        /\ CommitStore(
              SaveGraph(Store, ToDict(KG, Sorted(DOMAIN kg_nodes), Sorted(DOMAIN kg_relations)), gid),
              [op |-> "save_graph", id |-> gid, ret |-> gid])

\* storage.load_graph(graph_id), with after_save: the call before it was the
\* save_graph that returned graph_id.
LoadGraphCall ==
    \E gid \in 1..MaxGraphs :
        \E res \in {LoadGraph(Store, gid)} :
            /\ CommitStore(Store,
                  [op |-> "load_graph", id |-> gid, ret |-> res.ret,
                   k |-> IF res.ret = "ok" THEN res.k ELSE NoGraph,
                   after_save |-> st_last.op = "save_graph" /\ st_last.id = gid])
            /\ UNCHANGED st_issued

\* storage.delete_graph(graph_id)
DeleteGraphCall ==
    \E gid \in 1..MaxGraphs :
        \E res \in {DeleteGraph(Store, gid)} :
            /\ CommitStore(res.store, [op |-> "delete_graph", id |-> gid, ret |-> res.ret])
            /\ UNCHANGED st_issued

\* storage.list_graphs()
ListGraphsCall ==
    /\ CommitStore(Store, [op |-> "list_graphs", ret |-> ListGraphs(Store)])
    /\ UNCHANGED st_issued

\* A storage whose caller builds the graph with add_node and add_relation.
NextStore ==
    \/ CallerAddsNode
    \/ CallerAddsRelation
    \/ SaveGraphCall
    \/ LoadGraphCall
    \/ DeleteGraphCall
    \/ ListGraphsCall

SpecStore == Init /\ [][NextStore]_vars

\* A storage whose caller also calls update_relation.
NextStoreKG ==
    \/ NextStore
    \/ CallerUpdatesRelation

SpecStoreKG == Init /\ [][NextStoreKG]_vars

(***************************************************************************)
(* State machine of one InMemoryStorage whose caller goes on changing the  *)
(* nodes of the graph it saved.  Node.to_dict puts the node's own          *)
(* properties dictionary and labels list into the dictionary it returns,   *)
(* and save_graph's {**node_data, 'graph_id': graph_id} copies those       *)
(* references: the row kept under a node's id and the Node object share    *)
(* one dictionary and one list.  The caller's nodes are never replaced, so *)
(* the row under an id shares them with the graph's node of that id.       *)
(***************************************************************************)
\* The Node object changed in place, seen through the graph and through the row.
ChangeSavedNode(id, node, op) ==
    /\ h_nodes' = [h_nodes EXCEPT ![kg_nodes[id]] = node]
    /\ st_nodes' = IF id \in DOMAIN st_nodes
                   THEN [st_nodes EXCEPT ![id].properties = node.properties,
                                         ![id].labels = node.labels]
                   ELSE st_nodes
    /\ st_last' = [op |-> op]
    /\ UNCHANGED <<h_rels, kg_nodes, kg_relations, kg_name_index, kg_type_index, kg_view, kg_last>>
    /\ UNCHANGED <<bvars, rt, st_graphs, st_relations, st_issued, gs_backends>>

\* node.add_property('color', 'green') on a node of the graph
AddPropertyCall ==
    \E id \in DOMAIN kg_nodes :
        \E node \in {NodeAddProperty(h_nodes[kg_nodes[id]], "color", "green")} :
            /\ node # h_nodes[kg_nodes[id]]
            /\ ChangeSavedNode(id, node, "add_property")

\* node.add_label('pinned') on a node of the graph
AddLabelCall ==
    \E id \in DOMAIN kg_nodes :
        \E node \in {NodeAddLabel(h_nodes[kg_nodes[id]], "pinned")} :
            /\ node # h_nodes[kg_nodes[id]]
            /\ ChangeSavedNode(id, node, "add_label")

NextSaved ==
    \/ CallerAddsNode
    \/ CallerAddsRelation
    \/ AddPropertyCall
    \/ AddLabelCall
    \/ SaveGraphCall
    \/ LoadGraphCall

SpecSaved == Init /\ [][NextSaved]_vars

(***************************************************************************)
(* State machine of a KnowledgeGraph whose caller adds and updates nodes   *)
(* and searches them                                                       *)
(***************************************************************************)
\* The Node objects the caller constructs, and the values it gives a stored
\* Node when it changes it in place.
SearchedMakes ==
    {[type |-> "CONCEPT", name |-> "Button", properties |-> Given([color |-> "red"]),
      embedding |-> NotGiven, label |-> Null],
     [type |-> "ENTITY", name |-> "panel", properties |-> Given([color |-> "blue"]),
      embedding |-> NotGiven, label |-> Null],
     [type |-> "CONCEPT", name |-> "panel", properties |-> NotGiven,
      embedding |-> NotGiven, label |-> Null]}

\* A Node argument: a new Node, or a new object carrying the id of a node of
\* the graph.
SearchedNodeArgs(k) ==
    [kind : {"new"}, id : IF FreeNodeIds(k) = {} THEN {} ELSE {SetMin(FreeNodeIds(k))},
     make : SearchedMakes]
    \cup [kind : {"copy"}, id : DOMAIN k.nodes, make : SearchedMakes]

\* The filters find_nodes is called with.
FindQueries ==
    [name : {NotGiven, Given("BUT"), Given("an"), Given("empty")},
     node_type : {NotGiven} \cup {Given(t) : t \in NodeTypes},
     properties : {NotGiven, Given(EmptyDict), Given([color |-> "red"])}]

\* A call that may change the graph: what find_nodes gave before it is gone.
CommitSearched(res, call) ==
    /\ CommitKG(res, call)
    /\ rt' = NoResult
    /\ UNCHANGED <<bvars, stvars>>

\* kg.add_node(node)
SearchAddNode ==
    \E arg \in SearchedNodeArgs(KG) :
        \E a \in {ResolveFullNode(KG, arg)} :
            CommitSearched(AddNode(a.k, a.ref), NodeCall("add_node", a))

\* kg.update_node(node), node a new object
SearchUpdateNode ==
    \E arg \in SearchedNodeArgs(KG) :
        \E a \in {ResolveFullNode(KG, arg)} :
            CommitSearched(UpdateNode(a.k, a.ref), NodeCall("update_node", a))

\* node.name = ...; node.type = ...; kg.update_node(node), node the object
\* stored in the graph.
SearchUpdateStored ==
    \E r \in Range(kg_nodes) : \E make \in SearchedMakes :
        \E k \in {[KG EXCEPT !.hn[r].name = make.name, !.hn[r].type = make.type]} :
            CommitSearched(UpdateNode(k, r), NodeCall("update_node", [k |-> k, ref |-> r]))

\* kg.find_nodes(name, node_type, properties): the ids of the nodes returned.
FindNodesCall ==
    /\ \E q \in FindQueries :
          \E found \in {FindNodes(KG, q.name, q.node_type, q.properties)} :
              rt' = [op |-> "find_nodes", query |-> q,
                     ret |-> [i \in 1..Len(found) |-> h_nodes[found[i]].id]]
    /\ UNCHANGED <<bvars, kgvars, stvars>>

\* A caller that passes new objects only.
NextFind ==
    \/ SearchAddNode
    \/ SearchUpdateNode
    \/ FindNodesCall

SpecFind == Init /\ [][NextFind]_vars

\* A caller that also changes stored nodes and passes them to update_node.
NextFindStored ==
    \/ NextFind
    \/ SearchUpdateStored

SpecFindStored == Init /\ [][NextFindStored]_vars

(***************************************************************************)
(* State machine of a KnowledgeGraph whose caller adds and updates nodes,  *)
(* adds relations and asks for neighbors                                   *)
(***************************************************************************)
\* The RelationType members the relations and the rel_types filters draw from.
NeighborTypes == {"RELATED_TO", "PART_OF"}

\* A Relation argument: a new Relation of one of these types.
TypedRelArgs(k) ==
    {[arg EXCEPT !.type = t] : arg \in {x \in RelArgs(k) : x.kind = "new"}, t \in NeighborTypes}

\* kg.add_node(node)
NeighborAddNode ==
    \E arg \in NodeArgs(KG, PlainNames, PlainTypes) :
        \E a \in {ResolveNode(KG, arg)} :
            CommitSearched(AddNode(a.k, a.ref), NodeCall("add_node", a))

\* kg.update_node(node)
NeighborUpdateNode ==
    \E arg \in NodeArgs(KG, PlainNames, PlainTypes) :
        \E a \in {ResolveNode(KG, arg)} :
            CommitSearched(UpdateNode(a.k, a.ref), NodeCall("update_node", a))

\* kg.add_relation(relation)
NeighborAddRelation ==
    \E arg \in TypedRelArgs(KG) :
        \E a \in {ResolveRel(KG, arg)} :
            CommitSearched(AddRelation(a.k, a.ref), RelCall("add_relation", a))

\* kg.get_neighbors(node_id, direction, rel_types)
GetNeighborsCall ==
    /\ \E node_id \in NodeIds, direction \in {"in", "out", "both"},
          rel_types \in {NotGiven, Given({"PART_OF"})} :
          rt' = [op |-> "get_neighbors", node_id |-> node_id, direction |-> direction,
                 rel_types |-> rel_types,
                 ret |-> GetNeighbors(KG, node_id, direction, rel_types)]
    /\ UNCHANGED <<bvars, kgvars, stvars>>

NextNeighbors ==
    \/ NeighborAddNode
    \/ NeighborUpdateNode
    \/ NeighborAddRelation
    \/ GetNeighborsCall

SpecNeighbors == Init /\ [][NextNeighbors]_vars

(***************************************************************************)
(* State machine of the GraphStorage factory                               *)
(***************************************************************************)
\* GraphStorage.register_backend(storage_type, backend_class)
RegisterBackend ==
    /\ \E type \in StorageTypes, class \in {"PostgresStorage", "InMemoryStorage"} :
          /\ gs_backends' = DictSet(gs_backends, type, class)
          /\ st_last' = [op |-> "register_backend", type |-> type]
    /\ UNCHANGED <<bvars, kgvars, rt, st_graphs, st_nodes, st_relations, st_issued>>

\* GraphStorage.create_storage(storage_type, **kwargs)
CreateStorageCall ==
    /\ \E storage_type \in StorageTags, built \in BOOLEAN :
          \E res \in {CreateStorage(gs_backends, storage_type, built)} :
              st_last' = [op |-> "create_storage", storage_type |-> storage_type,
                          ret |-> res.ret, instance |-> res.instance,
                          backends |-> gs_backends]
    /\ UNCHANGED <<bvars, kgvars, rt, st_graphs, st_nodes, st_relations, st_issued, gs_backends>>

NextFactory ==
    \/ RegisterBackend
    \/ CreateStorageCall

SpecFactory == Init /\ [][NextFactory]_vars

(***************************************************************************)
(* Properties of HSKGBuilder.build                                         *)
(***************************************************************************)
\* vectors has n rows, sentences has length n, categories is absent or has length n.
ValidInput(a) ==
    /\ Len(a.vectors) = Len(a.sentences)
    /\ ~a.categories.given \/ Len(a.categories.list) = Len(a.sentences)

\* The category the caller gave item i (0-based); None when categories is absent.
CategoryOf(a, i) == IF a.categories.given THEN a.categories.list[i + 1] ELSE Null

Items(a) == 0..(Len(a.sentences) - 1)

\* The attribute dictionaries of the edges joining i and j.
EdgesBetween(g, i, j) == IF {i, j} \in DOMAIN g.edges THEN {g.edges[{i, j}]} ELSE {}

EdgesOfKind(g, i, j, kind) == {e \in EdgesBetween(g, i, j) : e.kind = kind}

Returned == b_calls >= 1 /\ b_ret = "ok"

\* C1 (as claimed): after build on valid input, every pair i < j has an edge
\* tagged kind=similarity exactly when the cosine similarity of rows i and j
\* reaches the threshold, and exactly one such edge, whatever the categories.
C1_SimilarityEdgeIffCosine ==
    (Returned /\ ValidInput(b_args)) =>
        \A i \in Items(b_args) : \A j \in Items(b_args) :
            i < j =>
                /\ (EdgesOfKind(b_graph, i, j, "similarity") # {})
                      <=> SimGEThreshold(Sim(b_args.vectors[i + 1], b_args.vectors[j + 1]))
                /\ Cardinality(EdgesOfKind(b_graph, i, j, "similarity")) <= 1

\* The symbolic edges of the built graph among the items whose category
\* passes the test carried: a clique per category, and nothing else.
SymbolicCliques(carried(_)) ==
    /\ \A c \in {CategoryOf(b_args, i) : i \in Items(b_args)} :
          LET M == {i \in Items(b_args) : CategoryOf(b_args, i) = c}
              m == Cardinality(M)
          IN (carried(c) /\ m >= 2) =>
                /\ \A i \in M : \A j \in M :
                      i < j => \E e \in EdgesOfKind(b_graph, i, j, "symbolic") : e.label = c
                /\ 2 * Cardinality({e \in DOMAIN b_graph.edges :
                                       e \subseteq M /\ b_graph.edges[e].kind = "symbolic"})
                      = m * (m - 1)
    /\ \A i \in Items(b_args) : \A j \in Items(b_args) :
          (i < j /\ EdgesOfKind(b_graph, i, j, "symbolic") # {}) =>
              /\ CategoryOf(b_args, i) = CategoryOf(b_args, j)
              /\ carried(CategoryOf(b_args, i))

NonNull(c) == c # Null

NonNullNonEmpty(c) == c # Null /\ c # ""

\* C2 (as claimed): after build, for every non-null category carried by
\* m >= 2 items the symbolic edges among them form a complete graph labelled
\* with the category (m*(m-1)/2 edges), and no symbolic edge joins nodes of
\* different categories or a node with a null category.
C2_SymbolicCliquePerNonNullCategory ==
    (Returned /\ ValidInput(b_args)) => SymbolicCliques(NonNull)

\* C3 (as claimed): two nodes that share a non-null category and reach the
\* threshold are joined by two parallel edges, one kind=similarity carrying
\* weight and one kind=symbolic carrying label.
C3_ParallelEdgesCoexist ==
    (Returned /\ ValidInput(b_args)) =>
        \A i \in Items(b_args) : \A j \in Items(b_args) :
            (/\ i < j
             /\ CategoryOf(b_args, i) = CategoryOf(b_args, j)
             /\ NonNullNonEmpty(CategoryOf(b_args, i))
             /\ SimGEThreshold(Sim(b_args.vectors[i + 1], b_args.vectors[j + 1])))
            => /\ \E e \in EdgesOfKind(b_graph, i, j, "similarity") : "weight" \in DOMAIN e
               /\ \E e \in EdgesOfKind(b_graph, i, j, "symbolic") : "label" \in DOMAIN e

\* C4 (as claimed): for every valid input build returns a graph with exactly
\* the nodes 0..n-1, node i carrying text = sentences[i], category =
\* categories[i] (null when categories is absent) and embedding = row i.
C4_OneNodePerItem ==
    (b_calls >= 1 /\ ValidInput(b_args)) =>
        /\ b_ret = "ok"
        /\ b_graph.nodes = Items(b_args)
        /\ \A i \in Items(b_args) :
              b_graph.data[i] = [text |-> b_args.sentences[i + 1],
                                 category |-> CategoryOf(b_args, i),
                                 embedding |-> b_args.vectors[i + 1]]

\* C5: after a second (or later) build call the builder's graph and the
\* call's outcome are what a fresh builder produces for the latest arguments
\* alone.
C5_RebuildEqualsFreshBuild ==
    b_calls >= 2 =>
        /\ b_graph = BuildOutcome(EmptyGraph, b_args).graph
        /\ b_ret = BuildOutcome(EmptyGraph, b_args).ret

\* C5 witness: a build that began on a graph of two nodes and an edge and
\* left a graph of one node and no edge.
C5_Witness ==
    /\ b_calls >= 2 /\ b_ret = "ok"
    /\ b_prev.nodes = 2 /\ b_prev.edges = 1
    /\ Cardinality(b_graph.nodes) = 1 /\ DOMAIN b_graph.edges = {}

\* The lengths handed to build disagree.
ShapeMismatch(a) ==
    \/ Len(a.vectors) # Len(a.sentences)
    \/ a.categories.given /\ a.categories.list # <<>>
          /\ Len(a.categories.list) # Len(a.sentences)

\* C6 (as claimed): build with a vectors row count or a non-empty categories
\* length different from len(sentences) fails with an error, returns no
\* graph, and leaves neither attribute-less nodes nor a prefix of the nodes
\* in the builder.
C6_ShapeMismatchFails ==
    (b_calls >= 1 /\ ShapeMismatch(b_args)) =>
        /\ b_ret # "ok"
        /\ b_graph.nodes = {}

(***************************************************************************)
(* Properties of KnowledgeGraph                                            *)
(***************************************************************************)
\* A Relation argument one of whose endpoints is not a node of the graph.
Dangling(a) ==
    \/ SourceId(a.k, a.ref) \notin DOMAIN a.k.nodes
    \/ TargetId(a.k, a.ref) \notin DOMAIN a.k.nodes

\* C7: in every reachable state, add_relation with any relation whose source
\* id or target id is not a key of the node map fails with DanglingEndpoint
\* and leaves the node map, relation map, indices and structural view as
\* they are, also when the relation's id is a key of the relation map.
C7_DanglingAddFailsUnchanged ==
    \A arg \in RelArgs(KG) :
        LET a == ResolveRel(KG, arg)
            res == AddRelation(a.k, a.ref)
        IN Dangling(a) =>
              /\ res.ret = "DanglingEndpoint"
              /\ Collect(res.k) = KG

\* C7 witness: add_relation was called with a relation whose id is a key of
\* the relation map and whose endpoint is not in the graph; it failed, and
\* the graph holds the relation it held before.
C7_Witness ==
    /\ kg_last.op = "add_relation" /\ kg_last.existed
    /\ kg_last.ret = "DanglingEndpoint"
    /\ kg_last.id \in DOMAIN kg_relations
    /\ <<SourceId(KG, kg_relations[kg_last.id]), TargetId(KG, kg_relations[kg_last.id]), kg_last.id>>
          \in kg_view.edges

\* C8 (as claimed): in every reachable state the source id and the target id
\* of every relation of the relation map are keys of the node map.
C8_RelationEndpointsAreNodes ==
    \A id \in DOMAIN kg_relations :
        /\ SourceId(KG, kg_relations[id]) \in DOMAIN kg_nodes
        /\ TargetId(KG, kg_relations[id]) \in DOMAIN kg_nodes

\* The positions of the name index (type index) that hold a node of this id.
NameEntries(id) ==
    {<<n, i>> \in (DOMAIN kg_name_index) \X (1..(Cardinality(NodeIds) + 1)) :
        i <= Len(kg_name_index[n]) /\ h_nodes[kg_name_index[n][i]].id = id}

TypeEntries(id) ==
    {<<t, i>> \in (DOMAIN kg_type_index) \X (1..(Cardinality(NodeIds) + 1)) :
        i <= Len(kg_type_index[t]) /\ h_nodes[kg_type_index[t][i]].id = id}

\* The node stored for this id is indexed once, under its name and its type.
IndexedOnce(id) ==
    /\ id \in DOMAIN kg_nodes
    /\ \E e \in NameEntries(id) :
          /\ NameEntries(id) = {e}
          /\ e[1] = h_nodes[kg_nodes[id]].name
          /\ kg_name_index[e[1]][e[2]] = kg_nodes[id]
    /\ \E e \in TypeEntries(id) :
          /\ TypeEntries(id) = {e}
          /\ e[1] = h_nodes[kg_nodes[id]].type
          /\ kg_type_index[e[1]][e[2]] = kg_nodes[id]

\* C9 (as claimed): update_node on a node of the graph, a new object or the
\* stored object changed in place, succeeds and leaves the node exactly once
\* in the name index and the type index, under its new name and type and
\* nowhere under the old ones.
C9_UpdateNodeReindexes ==
    (kg_last.op = "update_node" /\ kg_last.existed) =>
        /\ kg_last.ret = "ok"
        /\ IndexedOnce(kg_last.id)

\* C10 (as claimed): after add_node with a node whose id is in the graph the
\* id occurs exactly once in the id map, once in the name index and once in
\* the type index.
C10_AddExistingNodeIsUpdate ==
    (kg_last.op = "add_node" /\ kg_last.existed) =>
        /\ kg_last.id \in DOMAIN kg_nodes
        /\ Cardinality(NameEntries(kg_last.id)) = 1
        /\ Cardinality(TypeEntries(kg_last.id)) = 1

\* C11: in every reachable state, update_node with any node whose id is not a
\* key of the node map, and update_relation with any relation whose id is
\* not a key of the relation map, fail with NotFound and leave the node map,
\* the relation map, both indices and the structural view as they are.
C11_UpdateAbsentFailsUnchanged ==
    /\ \A arg \in NodeArgs(KG, PlainNames, PlainTypes) :
          LET a == ResolveNode(KG, arg)
              res == UpdateNode(a.k, a.ref)
          IN a.k.hn[a.ref].id \notin DOMAIN kg_nodes =>
                res.ret = "NotFound" /\ Collect(res.k) = KG
    /\ \A arg \in RelArgs(KG) :
          LET a == ResolveRel(KG, arg)
              res == UpdateRelation(a.k, a.ref)
          IN a.k.hr[a.ref].id \notin DOMAIN kg_relations =>
                res.ret = "NotFound" /\ Collect(res.k) = KG

\* C11 witness: update_relation was called on a graph that has nodes with a
\* relation whose id the relation map does not hold; it failed with NotFound
\* and the relation map is still empty.
C11_Witness ==
    /\ kg_last.op = "update_relation" /\ ~kg_last.existed
    /\ kg_last.ret = "NotFound"
    /\ kg_nodes # <<>>
    /\ kg_relations = <<>> /\ kg_view.edges = {}

(***************************************************************************)
(* Properties of the serialized form                                       *)
(***************************************************************************)
\* The nodes of a graph: per key of the node map the id, type, name,
\* properties and labels of the node stored there.
NodeSet(k) ==
    {[key |-> id, id |-> k.hn[k.nodes[id]].id, type |-> k.hn[k.nodes[id]].type,
      name |-> k.hn[k.nodes[id]].name, properties |-> k.hn[k.nodes[id]].properties,
      labels |-> k.hn[k.nodes[id]].labels] : id \in DOMAIN k.nodes}

\* The relations of a graph: per key of the relation map the id, source id,
\* target id, type and properties of the relation stored there.
RelationSet(k) ==
    {[key |-> id] @@ RelationToDict(k, k.hr[k.relations[id]]) : id \in DOMAIN k.relations}

\* C12: after from_dict(g.to_dict()) on a graph g built by add_node and
\* add_relation, the call succeeded and the new graph has the nodes of g
\* (ids, types, names, properties, labels) and the relations of g (ids,
\* source ids, target ids, types, properties).
C12_RoundTripKeepsNodesAndRelations ==
    rt.op = "round_trip" =>
        /\ rt.ret = "ok"
        /\ NodeSet(rt.k) = NodeSet(KG)
        /\ RelationSet(rt.k) = RelationSet(KG)

\* C12 witness: the round trip of a graph of two nodes, one of them with a
\* property and an added label, and a relation with a property.
C12_Witness ==
    /\ rt.op = "round_trip" /\ rt.ret = "ok"
    /\ Cardinality(DOMAIN kg_nodes) = 2
    /\ \E id \in DOMAIN kg_nodes :
          /\ h_nodes[kg_nodes[id]].properties # EmptyDict
          /\ Len(h_nodes[kg_nodes[id]].labels) = 2
    /\ \E id \in DOMAIN kg_relations :
          /\ h_rels[kg_relations[id]].properties # EmptyDict
          /\ SourceId(KG, kg_relations[id]) # TargetId(KG, kg_relations[id])

\* C13 (as claimed): for every node of g the has_embedding value in
\* from_dict(g.to_dict()).to_dict() equals the one in g.to_dict().
C13_EmbeddingFlagSurvives ==
    (rt.op = "round_trip" /\ rt.ret = "ok") =>
        \A id \in DOMAIN kg_nodes :
            /\ id \in DOMAIN rt.k.nodes
            /\ NodeToDict(rt.k.hn[rt.k.nodes[id]]).has_embedding
                  = NodeToDict(h_nodes[kg_nodes[id]]).has_embedding

\* The serialized form has a relation one of whose endpoints is no serialized node.
HasDangling(data) ==
    \E i \in 1..Len(data.relations) :
        \/ data.relations[i].source_id \notin {data.nodes[j].id : j \in 1..Len(data.nodes)}
        \/ data.relations[i].target_id \notin {data.nodes[j].id : j \in 1..Len(data.nodes)}

\* What from_dict gives, without the order of the lists.
Outcome(res) ==
    [ret |-> res.ret,
     nodes |-> IF res.ret = "ok" THEN NodeSet(res.k) ELSE {},
     relations |-> IF res.ret = "ok" THEN RelationSet(res.k) ELSE {}]

\* C14: from_dict on a serialized form with a relation whose source_id or
\* target_id is the id of no serialized node fails with DanglingEndpoint and
\* returns no graph; on any other form it succeeds with every serialized
\* node and relation; and the nodes list in any other order gives the same.
C14_FromDictResolvesAfterAllNodes ==
    rt.op = "from_dict" =>
        /\ HasDangling(rt.data) => (rt.ret = "DanglingEndpoint" /\ rt.k = NoGraph)
        /\ ~HasDangling(rt.data) =>
              /\ rt.ret = "ok"
              /\ DOMAIN rt.k.nodes = {rt.data.nodes[j].id : j \in 1..Len(rt.data.nodes)}
              /\ {r.id : r \in RelationSet(rt.k)}
                    = {rt.data.relations[i].id : i \in 1..Len(rt.data.relations)}
        /\ \A norder \in Perms(1..Len(rt.data.nodes)) :
              Outcome(FromDict([rt.data EXCEPT !.nodes = [j \in 1..Len(norder) |-> @[norder[j]]]]))
                 = Outcome(FromDict(rt.data))

\* C14 witness: from_dict was given a form whose relation names a node that
\* is not in its nodes list, which still lists another node; it failed.
C14_Witness ==
    /\ rt.op = "from_dict" /\ rt.ret = "DanglingEndpoint"
    /\ Len(rt.data.nodes) = 1 /\ Len(rt.data.relations) = 1
    /\ rt.data.relations[1].source_id = rt.data.nodes[1].id
    /\ rt.data.relations[1].target_id # rt.data.nodes[1].id

(***************************************************************************)
(* Properties of InMemoryStorage                                           *)
(***************************************************************************)
\* The last storage call was load_graph on a stored id.
LoadedStored == st_last.op = "load_graph" /\ st_last.id \in DOMAIN st_graphs

\* C15: a stored copy is independent of every later save_graph call: whatever
\* was saved afterwards, load_graph on a stored id returns a graph with the
\* node count and relation count the graph had when it was saved under that
\* id (the counts save_graph wrote into the metadata of that id).
C15_StoredCopyIsIndependent ==
    LoadedStored =>
        /\ st_last.ret = "ok"
        /\ Cardinality(DOMAIN st_last.k.nodes) = st_graphs[st_last.id].metadata.node_count
        /\ Cardinality(DOMAIN st_last.k.relations) = st_graphs[st_last.id].metadata.relation_count

\* C16: load_graph(save_graph(g)), called right after the save, returns a
\* graph with as many nodes and as many relations as g, and with the name and
\* type g has for every node id.
C16_LoadAfterSaveKeepsCounts ==
    (st_last.op = "load_graph" /\ st_last.after_save) =>
        /\ st_last.ret = "ok"
        /\ DOMAIN st_last.k.nodes = DOMAIN kg_nodes
        /\ Cardinality(DOMAIN st_last.k.relations) = Cardinality(DOMAIN kg_relations)
        /\ \A id \in DOMAIN kg_nodes :
              /\ st_last.k.hn[st_last.k.nodes[id]].name = h_nodes[kg_nodes[id]].name
              /\ st_last.k.hn[st_last.k.nodes[id]].type = h_nodes[kg_nodes[id]].type

\* The step is a delete_graph call on an id that was stored when it began.
DeletesStored == st_last'.op = "delete_graph" /\ st_last'.id \in DOMAIN st_graphs

\* The rows of a row dictionary that belong to other graphs than gid.
OtherRows(rows, gid) == [key \in {x \in DOMAIN rows : rows[x].graph_id # gid} |-> rows[key]]

\* C17: delete_graph(id) on a stored id returns True; afterwards the metadata
\* of id is gone, no node row and no relation row carries graph_id = id,
\* load_graph(id) fails with NotFound and list_graphs has no entry for id, and
\* the metadata and the rows of every other graph are as before.
C17_DeleteCascades ==
    [][DeletesStored =>
        /\ st_last'.ret = TRUE
        /\ st_last'.id \notin DOMAIN st_graphs'
        /\ \A key \in DOMAIN st_nodes' : st_nodes'[key].graph_id # st_last'.id
        /\ \A key \in DOMAIN st_relations' : st_relations'[key].graph_id # st_last'.id
        /\ LoadGraph(Store, st_last.id)'.ret = "NotFound"
        /\ \A i \in DOMAIN ListGraphs(Store)' : ListGraphs(Store)'[i].id # st_last'.id
        /\ st_graphs' = DictDel(st_graphs, st_last'.id)
        /\ st_nodes' = OtherRows(st_nodes, st_last'.id)
        /\ st_relations' = OtherRows(st_relations, st_last'.id)]_vars

\* A stored graph was deleted while another graph, with node rows and
\* relation rows, stays stored.
C17_Witness ==
    /\ st_last.op = "delete_graph"
    /\ st_last.ret = TRUE
    /\ st_graphs # <<>>
    /\ st_nodes # <<>>
    /\ st_relations # <<>>

\* The step is a delete_graph call on an id that was not stored when it began.
DeletesUnknown == st_last'.op = "delete_graph" /\ st_last'.id \notin DOMAIN st_graphs

\* C18: delete_graph on an id that is not stored returns False and leaves the
\* stored graphs, the node rows, the relation rows and the result of
\* list_graphs as they were.
C18_DeleteUnknownIsNoOp ==
    [][DeletesUnknown =>
        /\ st_last'.ret = FALSE
        /\ st_graphs' = st_graphs
        /\ st_nodes' = st_nodes
        /\ st_relations' = st_relations
        /\ ListGraphs(Store)' = ListGraphs(Store)]_vars

\* delete_graph was called on an id that was deleted before, while another
\* graph is stored.
C18_Witness ==
    /\ st_last.op = "delete_graph"
    /\ st_last.ret = FALSE
    /\ st_last.id \in st_issued
    /\ st_graphs # <<>>
    /\ st_nodes # <<>>

\* The keys of the node rows of stored graph gid, and the keys of its
\* relation rows whose source_id and target_id are both among them.
NodeRows(gid) == {key \in DOMAIN st_nodes : st_nodes[key].graph_id = gid}

ResolvedRows(gid) ==
    {key \in DOMAIN st_relations :
        /\ st_relations[key].graph_id = gid
        /\ st_relations[key].source_id \in NodeRows(gid)
        /\ st_relations[key].target_id \in NodeRows(gid)}

\* C19: load_graph fails with NotFound exactly when the id is not stored.  For
\* a stored id it succeeds whatever the relation rows are: the returned graph
\* holds every node row of the graph and every relation row with both
\* endpoints resolved, no other relation, and every relation of it joins two
\* Node objects stored in it.
C19_LoadDropsUnresolvedRelations ==
    st_last.op = "load_graph" =>
        /\ (st_last.ret = "NotFound") <=> (st_last.id \notin DOMAIN st_graphs)
        /\ st_last.id \in DOMAIN st_graphs =>
              /\ st_last.ret = "ok"
              /\ DOMAIN st_last.k.nodes = NodeRows(st_last.id)
              /\ DOMAIN st_last.k.relations = ResolvedRows(st_last.id)
              /\ \A rid \in DOMAIN st_last.k.relations :
                    /\ st_last.k.hr[st_last.k.relations[rid]].source \in Range(st_last.k.nodes)
                    /\ st_last.k.hr[st_last.k.relations[rid]].target \in Range(st_last.k.nodes)
                    /\ ViewHasEdge(st_last.k.view,
                                   SourceId(st_last.k, st_last.k.relations[rid]),
                                   TargetId(st_last.k, st_last.k.relations[rid]), rid)

\* load_graph returned a graph for a stored id that has a relation row with an
\* unresolved endpoint.
C19_Witness ==
    /\ LoadedStored
    /\ st_last.ret = "ok"
    /\ \E key \in DOMAIN st_relations :
          st_relations[key].graph_id = st_last.id /\ key \notin ResolvedRows(st_last.id)

\* The ids a list_graphs result lists, and its entry for one of them.
ListedIds(list) == {list[i].id : i \in DOMAIN list}

EntryOf(list, gid) == CHOOSE e \in Range(list) : e.id = gid

\* C20: list_graphs has exactly one entry per graph saved and not deleted; the
\* entry a save_graph call creates carries the node count and the relation
\* count the graph has at that call, and no later call on the graph or on the
\* storage changes an entry while its graph stays stored.
C20_ListGraphsIsSnapshot ==
    /\ ListGraphs(Store) = <<>>
    /\ [][\E before \in {ListGraphs(Store)} : \E after \in {ListGraphs(Store)'} :
          /\ Len(after) = Cardinality(ListedIds(after))
          /\ ListedIds(after) =
                IF st_last'.op = "save_graph" THEN ListedIds(before) \cup {st_last'.id}
                ELSE IF st_last'.op = "delete_graph" THEN ListedIds(before) \ {st_last'.id}
                ELSE ListedIds(before)
          /\ st_last'.op = "save_graph" =>
                /\ st_last'.id \notin ListedIds(before)
                /\ EntryOf(after, st_last'.id).metadata.node_count = Cardinality(DOMAIN kg_nodes)
                /\ EntryOf(after, st_last'.id).metadata.relation_count
                      = Cardinality(DOMAIN kg_relations)
          /\ st_last'.op = "list_graphs" => st_last'.ret = after
          /\ \A gid \in ListedIds(before) \cap ListedIds(after) :
                EntryOf(after, gid) = EntryOf(before, gid)]_vars

\* list_graphs was called after one graph was deleted and the saved graph
\* had grown: the entry returned still carries the smaller node count.
C20_Witness ==
    /\ st_last.op = "list_graphs"
    /\ st_issued \ ListedIds(st_last.ret) # {}
    /\ \E i \in DOMAIN st_last.ret :
          st_last.ret[i].metadata.node_count < Cardinality(DOMAIN kg_nodes)

(***************************************************************************)
(* Properties of the queries                                               *)
(***************************************************************************)
\* The node stored for id satisfies every filter of the query that is given.
Satisfies(id, q) ==
    LET node == h_nodes[kg_nodes[id]] IN
    /\ q.node_type.given => node.type = q.node_type.value
    /\ q.name.given => Contains(Lower(Spell[q.name.value]), Lower(Spell[node.name]))
    /\ q.properties.given => PropertiesMatch(node, q.properties.value)

\* C21: find_nodes returns exactly the nodes of the id map that satisfy every
\* filter given (type equal, name a case-insensitive substring, every
\* property key present with an equal value), each of them once.
C21_FindNodesMatchesFilters ==
    rt.op = "find_nodes" =>
        /\ Range(rt.ret) = {id \in DOMAIN kg_nodes : Satisfies(id, rt.query)}
        /\ Len(rt.ret) = Cardinality(Range(rt.ret))

\* The relations get_neighbors is asked for on one side of the node: those
\* of the relation map that end (side 3) or start (side 1) at rt.node_id and
\* pass the rel_types filter.
AskedFor(side) ==
    {rid \in DOMAIN kg_relations :
        /\ (IF side = 1 THEN SourceId(KG, kg_relations[rid]) ELSE TargetId(KG, kg_relations[rid]))
              = rt.node_id
        /\ rt.rel_types.given => h_rels[kg_relations[rid]].type \in rt.rel_types.value}

\* C22: get_neighbors returns the empty list for a node_id that is not in the
\* graph; otherwise one (source, relation, target) tuple for every relation
\* of the relation map that ends at node_id ('in'), starts at it ('out'), or
\* both lists one after the other ('both'), restricted to the rel_types
\* given, and no other tuple.
C22_NeighborsAreIncidentRelations ==
    rt.op = "get_neighbors" =>
        IF rt.node_id \notin DOMAIN kg_nodes THEN rt.ret = <<>>
        ELSE
            /\ \A i \in DOMAIN rt.ret :
                  /\ rt.ret[i][2] \in Range(kg_relations)
                  /\ h_nodes[rt.ret[i][1]].id = SourceId(KG, rt.ret[i][2])
                  /\ h_nodes[rt.ret[i][3]].id = TargetId(KG, rt.ret[i][2])
            /\ \A rid \in DOMAIN kg_relations :
                  Cardinality({i \in DOMAIN rt.ret : rt.ret[i][2] = kg_relations[rid]})
                    = (IF rt.direction \in {"in", "both"} /\ rid \in AskedFor(3) THEN 1 ELSE 0)
                      + (IF rt.direction \in {"out", "both"} /\ rid \in AskedFor(1) THEN 1 ELSE 0)

\* get_neighbors was asked for the PART_OF relations that end at a node and
\* returned the one there is, which starts at the other node.
C22_Witness ==
    /\ rt.op = "get_neighbors"
    /\ rt.direction = "in"
    /\ rt.rel_types = Given({"PART_OF"})
    /\ Len(rt.ret) = 1
    /\ h_nodes[rt.ret[1][1]].id # rt.node_id

(***************************************************************************)
(* Properties of the GraphStorage factory                                  *)
(***************************************************************************)
\* The storage_type of the latest create_storage call names no member of
\* StorageType, or a member that had no backend class when the call began.
Unsupported ==
    \/ st_last.storage_type.kind = "str" /\ Upper[st_last.storage_type.value] \notin StorageTypes
    \/ st_last.storage_type.kind = "str"
          /\ Upper[st_last.storage_type.value] \notin DOMAIN st_last.backends
    \/ st_last.storage_type.kind = "StorageType"
          /\ st_last.storage_type.value \notin DOMAIN st_last.backends

\* C23: create_storage with a tag that names no StorageType, or with a
\* StorageType that has no registered backend, fails with ValueError (the
\* UnsupportedStorageType error), returns no backend instance and leaves the
\* registry as it was.
C23_UnsupportedTypeFailsAtCreation ==
    (st_last.op = "create_storage" /\ Unsupported) =>
        /\ st_last.ret = "ValueError"
        /\ st_last.instance = Null
        /\ gs_backends = st_last.backends

\* create_storage was called with NEO4J, as a StorageType and as a str in
\* lower case, while only the two built-in backends were registered.
C23_Witness ==
    /\ st_last.op = "create_storage"
    /\ st_last.storage_type.value \in {"neo4j", "NEO4J"}
    /\ DOMAIN st_last.backends = {"POSTGRES", "IN_MEMORY"}
    /\ st_last.ret = "ValueError"

(***************************************************************************)
(* Properties of the structural view                                       *)
(***************************************************************************)
\* The edge keys the relation map calls for: (source id, target id, relation id).
RelationKeys ==
    {<<SourceId(KG, kg_relations[id]), TargetId(KG, kg_relations[id]), id>> :
        id \in DOMAIN kg_relations}

\* C24 (as claimed): in every state reachable by add_node, update_node,
\* add_relation and update_relation the structural view holds exactly one
\* edge (source id, target id, relation id) per relation of the relation map
\* and no other edge.
C24_ViewHasOneEdgePerRelation == kg_view.edges = RelationKeys

\* C25 (as claimed): update_relation with a relation whose id is stored and
\* whose endpoints, both nodes of the graph, differ from the stored
\* relation's succeeds: the view then has the edge of that id under the new
\* pair and none under the old pair, and the relation map holds the new
\* relation.
C25_UpdateRelationRekeys ==
    [][\A id \in DOMAIN kg_relations :
         \E before \in {KG} : \E after \in {KG'} :
           \E old \in {<<SourceId(before, before.relations[id]),
                         TargetId(before, before.relations[id])>>} :
             ( /\ kg_last'.op = "update_relation"
               /\ kg_last'.id = id
               /\ id \in DOMAIN after.relations
               /\ SourceId(after, after.relations[id]) \in DOMAIN before.nodes
               /\ TargetId(after, after.relations[id]) \in DOMAIN before.nodes
               /\ <<SourceId(after, after.relations[id]),
                    TargetId(after, after.relations[id])>> # old )
             => /\ kg_last'.ret = "ok"
                /\ <<old[1], old[2], id>> \notin after.view.edges
                /\ <<SourceId(after, after.relations[id]),
                     TargetId(after, after.relations[id]), id>> \in after.view.edges
    ]_vars

(***************************************************************************)
(* Properties of the built graph                                           *)
(***************************************************************************)
\* The graph build holds when _add_symbolic_edges starts, for arguments a.
BeforeSymbolicEdges(a) ==
    AddSimilarityEdges(
        AddNodes(EmptyGraph, a.sentences, EffectiveCategories(a.sentences, a.categories),
                 a.vectors, 0).graph,
        a.vectors)

\* C26: a build gives the edges, with their kind, weight and label, that a
\* fresh builder gives for the same arguments and that the same builder
\* gives when it builds them again, and the edges are the same in whatever
\* order the category groups are visited.
C26_BuildIsDeterministic ==
    (b_calls = 2 /\ b_ret = "ok") =>
        /\ BuildOutcome(EmptyGraph, b_args).graph.edges = b_graph.edges
        /\ BuildOutcome(b_graph, b_args).graph.edges = b_graph.edges
        /\ \E g \in {BeforeSymbolicEdges(b_args)} :
              \A order \in Perms(1..Len(CatGroups(g, 1, <<>>))) :
                  AddSymbolicEdgesInOrder(g, order).edges = b_graph.edges

\* Two category groups each put symbolic edges into the graph, one of them
\* on a pair that had a similarity edge.
C26_Witness ==
    /\ b_calls = 2 /\ b_ret = "ok"
    /\ \E e \in DOMAIN b_graph.edges : \E f \in DOMAIN b_graph.edges :
          /\ b_graph.edges[e].kind = "symbolic" /\ b_graph.edges[f].kind = "symbolic"
          /\ b_graph.edges[e].label = "item" /\ b_graph.edges[f].label = "setting"
          /\ "weight" \in DOMAIN b_graph.edges[e]
          /\ "weight" \notin DOMAIN b_graph.edges[f]

\* C27 (as claimed): the built graph has no self-loop and at most one edge
\* per unordered pair of nodes, so at most n*(n-1)/2 edges; a pair that
\* shares a non-null category and reaches the threshold has its one edge
\* with kind=symbolic, the category as label and the similarity as weight.
C27_SimpleGraphSymbolicKeepsWeight ==
    (Returned /\ ValidInput(b_args)) =>
        /\ \A e \in DOMAIN b_graph.edges : Cardinality(e) = 2 /\ e \subseteq b_graph.nodes
        /\ 2 * Cardinality(DOMAIN b_graph.edges)
              <= Cardinality(b_graph.nodes) * (Cardinality(b_graph.nodes) - 1)
        /\ \A i \in Items(b_args) : \A j \in Items(b_args) :
              (/\ i < j
               /\ CategoryOf(b_args, i) = CategoryOf(b_args, j)
               /\ NonNull(CategoryOf(b_args, i))
               /\ SimGEThreshold(Sim(b_args.vectors[i + 1], b_args.vectors[j + 1])))
              => /\ {i, j} \in DOMAIN b_graph.edges
                 /\ b_graph.edges[{i, j}] =
                       [kind |-> "symbolic", label |-> CategoryOf(b_args, i),
                        weight |-> Sim(b_args.vectors[i + 1], b_args.vectors[j + 1])]

(***************************************************************************)
(* Properties of the objects a KnowledgeGraph holds                        *)
(***************************************************************************)
\* C28 (as claimed): in every reachable state the source and the target of
\* each relation of the relation map are the Node objects the node map
\* holds under their ids, also after update_node stored a new object.
C28_EndpointsAreStoredObjects ==
    \A id \in DOMAIN kg_relations :
        \E rel \in {h_rels[kg_relations[id]]} :
            /\ h_nodes[rel.source].id \in DOMAIN kg_nodes
            /\ h_nodes[rel.target].id \in DOMAIN kg_nodes
            /\ kg_nodes[h_nodes[rel.source].id] = rel.source
            /\ kg_nodes[h_nodes[rel.target].id] = rel.target

(***************************************************************************)
(* Properties of the copies InMemoryStorage keeps                          *)
(***************************************************************************)
\* C29 (as claimed): a change the caller makes to the graph after save_graph
\* (add_node, add_relation, Node.add_property, Node.add_label) leaves what
\* load_graph returns for every stored id as it was.
C29_StoredCopyIsIsolated ==
    [][st_last'.op \in {GraphChanged.op, "add_property", "add_label"} =>
         \A gid \in DOMAIN st_graphs :
             \E before \in {LoadGraph(Store, gid)} :
                 \E after \in {LoadGraph(Store, gid)'} : after = before
    ]_vars

(***************************************************************************)
(* Properties of the POST /api/graph handler                               *)
(***************************************************************************)
\* The arguments the handler of thread t passes to build.
BuildArgsOf(t) ==
    [sentences |-> req[t].texts, vectors |-> Encode(req[t].texts), categories |-> req[t].categories]

\* C30 (as claimed): with two requests handled by interleaved threads, every
\* 200 response carries the node count, edge count and edge-kind breakdown of
\* the graph built from its own request's texts and categories alone.
C30_ResponseCountsOwnGraph ==
    \A t \in Threads :
        (req[t].pc = "done" /\ req[t].resp.status = 200) =>
            req[t].resp = GraphStats(BuildOutcome(EmptyGraph, BuildArgsOf(t)).graph)

====
